---- MODULE Spec2Model ----
(***************************************************************************)
(* Model of pytential/qbx/refinement.py: the three refinement checkers     *)
(* (element property threshold, Condition 1, Condition 2), the refinement  *)
(* applicator and the stage-1 / stage-2 control loops.                     *)
(*                                                                         *)
(* Arrays are functions on 0..n-1, as in the kernels.  Coordinates, radii  *)
(* and element properties are integers standing for coord_t values; the    *)
(* disturbance tolerance is a rational <<num, den>>, so that the products  *)
(* and comparisons of the kernels are exact.                               *)
(***************************************************************************)
EXTENDS Integers, Sequences, FiniteSets, TLC

VARIABLES
    stage,                      \* which entry point runs: 1, 2, or 0 (checker harness)
    maxiter,
    kernel_length_scale,
    scaled_max_curvature_threshold,
    expansion_disturbance_tolerance,
    force_stage2_uniform_refinement_rounds,
    density_discr,              \* stage 1: the input discretization
    stage1_density_discr,
    stage2_density_discr,
    connections,
    violated_criteria,
    iter_violated_criteria,
    niter,
    round,                      \* stage 2: uniform rounds done
    refine_flags,
    pc,
    warnings,                   \* RefinerNotConvergedWarning records emitted so far
    retval,                     \* the returned (discr, conn) pair, None before return
    log,                        \* calls made to the wrangler, in order
    refine_flags_updated,       \* the scalar output of a running kernel
    work,                       \* the work items of a running kernel
    chk                         \* checker harness: inputs and outputs of one call

vars == <<stage, maxiter, kernel_length_scale, scaled_max_curvature_threshold,
          expansion_disturbance_tolerance,
          force_stage2_uniform_refinement_rounds,
          density_discr, stage1_density_discr, stage2_density_discr,
          connections, violated_criteria, iter_violated_criteria, niter,
          round, refine_flags, pc, warnings, retval, log,
          refine_flags_updated, work, chk>>

\* ------------------------------------------------------------------ bounds

MaxElems == 4
MaxIterBound == 2
MaxRounds == 2

None == <<>>

Range0(n) == 0 .. (n - 1)

\* ---------------------------------------------------------------- geometry

Abs(x) == IF x < 0 THEN -x ELSE x

\* Square of distance() of the tree preamble: Euclidean, 2 axes.
distance_sq(a, b) == (a[1] - b[1]) * (a[1] - b[1]) + (a[2] - b[2]) * (a[2] - b[2])

\* variant: a source exactly on the scaled disk does not count
IsCloseStrict(a, b, tol, radius) ==
    tol[2] * tol[2] * distance_sq(a, b)
        < (tol[2] - tol[1]) * (tol[2] - tol[1]) * radius * radius

\* distance(a, b) <= (1 - tol) * radius, for radius >= 0 and 0 <= tol <= 1,
\* with tol = tol[1] / tol[2]: both sides squared and cleared of denominators.
IsClose(a, b, tol, radius) ==
    tol[2] * tol[2] * distance_sq(a, b)
        <= (tol[2] - tol[1]) * (tol[2] - tol[1]) * radius * radius

\* bsearch(starts, len, val) of InlineBinarySearch: the index p with
\* starts[p] <= val < starts[p + 1].
bsearch(starts, len, val) ==
    CHOOSE p \in 0 .. (len - 2) : starts[p] <= val /\ val < starts[p + 1]

\* ------------------------------------------------------------------- tree
\* wrangler.build_tree / find_peer_lists and the area query are consumed, not
\* defined, by refinement.py.  The tree is modelled by the contract the
\* kernels rely on: leaf boxes are the unit cells of a GridSize x GridSize
\* lattice (coordinates 0 .. GridSize - 1), every particle lies in exactly
\* one leaf, and the area query visits every leaf overlapping the ball.

GridSize == MaxElems

nboxes == GridSize * GridSize

BoxId(p) == p[2] * GridSize + p[1]

BoxCenter(b) == <<b % GridSize, b \div GridSize>>

\* particles: user order, sources first, then centers.  The tree keeps its
\* particles in an order of its own (here: the reverse of user order);
\* sorted_target_ids maps a user index to its place in tree order, and the
\* box lists hold user indices, box by box.
BuildTree(particles, nsources, ncenters, src_starts, ctr_starts, npanels) ==
    LET N == nsources + ncenters
        Before(v, u) ==
            \/ BoxId(particles[v]) < BoxId(particles[u])
            \/ BoxId(particles[v]) = BoxId(particles[u]) /\ v < u
        SrcRank(s) == Cardinality({v \in Range0(nsources) : Before(v, s)})
        CtrRank(c) ==
            Cardinality({v \in Range0(ncenters) :
                            Before(nsources + v, nsources + c)})
    IN  [ nqbxpanels |-> npanels,
          nqbxsources |-> nsources,
          nqbxcenters |-> ncenters,
          qbx_user_source_slice_start |-> 0,
          qbx_user_center_slice_start |-> nsources,
          sorted_target_ids |-> [u \in Range0(N) |-> N - 1 - u],
          sources |-> [t \in Range0(N) |-> particles[N - 1 - t]],
          box_to_qbx_source_starts |->
              [b \in 0 .. nboxes |->
                  Cardinality({s \in Range0(nsources) : BoxId(particles[s]) < b})],
          box_to_qbx_source_lists |->
              [k \in Range0(nsources) |->
                  CHOOSE s \in Range0(nsources) : SrcRank(s) = k],
          box_to_qbx_center_starts |->
              [b \in 0 .. nboxes |->
                  Cardinality({c \in Range0(ncenters) :
                                  BoxId(particles[nsources + c]) < b})],
          box_to_qbx_center_lists |->
              [k \in Range0(ncenters) |->
                  CHOOSE c \in Range0(ncenters) : CtrRank(c) = k],
          qbx_panel_to_source_starts |-> src_starts,
          qbx_panel_to_center_starts |-> ctr_starts ]

\* Leaves the area query hands to leaf_found_op: those whose cell overlaps the
\* bounding square of the ball.  ball_radius is a rational <<num, den>>.
AreaQueryLeaves(ball_center, ball_radius) ==
    {b \in Range0(nboxes) :
        /\ 2 * ball_radius[2] * Abs(ball_center[1] - BoxCenter(b)[1])
               <= 2 * ball_radius[1] + ball_radius[2]
        /\ 2 * ball_radius[2] * Abs(ball_center[2] - BoxCenter(b)[2])
               <= 2 * ball_radius[1] + ball_radius[2]}

INDEX_FOR_CENTER_PARTICLE(tree, i) ==
    tree.sorted_target_ids[tree.qbx_user_center_slice_start + i]

INDEX_FOR_SOURCE_PARTICLE(tree, i) ==
    tree.sorted_target_ids[tree.qbx_user_source_slice_start + i]

\* ---------------------------------------------------------------- kernels

\* Condition 1, leaf_found_op: the loop over the sources of one leaf box, from
\* source_idx on; TRUE when it reaches the is_close branch (flag, break).
RECURSIVE Cond1LeafFound(_, _, _, _, _, _)
Cond1LeafFound(tree, center_danger_zone_radii, tol, icenter, source_idx, stop) ==
    IF source_idx >= stop THEN FALSE
    ELSE LET source == tree.box_to_qbx_source_lists[source_idx]
             ball_center ==
                 tree.sources[INDEX_FOR_CENTER_PARTICLE(tree, icenter)]
             source_coords ==
                 tree.sources[INDEX_FOR_SOURCE_PARTICLE(tree, source)]
             is_close == IsClose(ball_center, source_coords, tol,
                                 center_danger_zone_radii[icenter])
         IN  IF is_close THEN TRUE
             ELSE Cond1LeafFound(tree, center_danger_zone_radii, tol, icenter,
                                 source_idx + 1, stop)

\* One work item of the Condition-1 kernel: TRUE when some leaf of the area
\* query makes it write panel_refine_flags[center_panel].
Cond1WorkItem(tree, center_danger_zone_radii, tol, icenter) ==
    LET ball_center == tree.sources[INDEX_FOR_CENTER_PARTICLE(tree, icenter)]
        ball_radius ==
            <<(tol[2] - tol[1]) * center_danger_zone_radii[icenter], tol[2]>>
    IN  \E leaf \in AreaQueryLeaves(ball_center, ball_radius) :
            Cond1LeafFound(tree, center_danger_zone_radii, tol, icenter,
                           tree.box_to_qbx_source_starts[leaf],
                           tree.box_to_qbx_source_starts[leaf + 1])

Cond1CenterPanel(tree, icenter) ==
    bsearch(tree.qbx_panel_to_center_starts, tree.nqbxpanels + 1, icenter)

\* The whole kernel, range = slice(tree.nqbxcenters).
\* radii: center_danger_zone_radii; flags: panel_refine_flags; found:
\* found_panel_to_refine.
EXPANSION_DISK_UNDISTURBED_BY_SOURCES_CHECKER(tree, radii, tol, flags, found) ==
    LET hit == {i \in Range0(tree.nqbxcenters) : Cond1WorkItem(tree, radii, tol, i)}
    IN  [ panel_refine_flags |->
              [p \in DOMAIN flags |->
                  IF \E i \in hit : Cond1CenterPanel(tree, i) = p
                  THEN 1 ELSE flags[p]],
          found_panel_to_refine |-> IF hit # {} THEN 1 ELSE found ]

\* variant: a center exactly on the danger zone does not count
RECURSIVE Cond2LeafFoundStrict(_, _, _, _, _, _)
Cond2LeafFoundStrict(tree, radii_by_panel, my_panel, i, center_idx, stop) ==
    IF center_idx >= stop THEN FALSE
    ELSE LET center == tree.box_to_qbx_center_lists[center_idx]
             ball_center == tree.sources[INDEX_FOR_SOURCE_PARTICLE(tree, i)]
             center_coords ==
                 tree.sources[INDEX_FOR_CENTER_PARTICLE(tree, center)]
             is_close ==
                 distance_sq(ball_center, center_coords)
                     < radii_by_panel[my_panel] * radii_by_panel[my_panel]
         IN  IF is_close THEN TRUE
             ELSE Cond2LeafFoundStrict(tree, radii_by_panel, my_panel, i,
                                       center_idx + 1, stop)

\* Condition 2, leaf_found_op: the loop over the centers of one leaf box.
RECURSIVE Cond2LeafFound(_, _, _, _, _, _)
Cond2LeafFound(tree, radii_by_panel, my_panel, i, center_idx, stop) ==
    IF center_idx >= stop THEN FALSE
    ELSE LET center == tree.box_to_qbx_center_lists[center_idx]
             ball_center == tree.sources[INDEX_FOR_SOURCE_PARTICLE(tree, i)]
             center_coords ==
                 tree.sources[INDEX_FOR_CENTER_PARTICLE(tree, center)]
             is_close ==
                 distance_sq(ball_center, center_coords)
                     <= radii_by_panel[my_panel] * radii_by_panel[my_panel]
         IN  IF is_close THEN TRUE
             ELSE Cond2LeafFound(tree, radii_by_panel, my_panel, i,
                                 center_idx + 1, stop)

Cond2MyPanel(tree, i) ==
    bsearch(tree.qbx_panel_to_source_starts, tree.nqbxpanels + 1, i)

\* One work item (one source i) of the Condition-2 kernel.
Cond2WorkItem(tree, radii_by_panel, i) ==
    LET my_panel == Cond2MyPanel(tree, i)
        ball_center == tree.sources[INDEX_FOR_SOURCE_PARTICLE(tree, i)]
        ball_radius == <<radii_by_panel[my_panel], 1>>
    IN  \E leaf \in AreaQueryLeaves(ball_center, ball_radius) :
            Cond2LeafFound(tree, radii_by_panel, my_panel, i,
                           tree.box_to_qbx_center_starts[leaf],
                           tree.box_to_qbx_center_starts[leaf + 1])

\* The whole kernel, range = slice(tree.nqbxsources).
SUFFICIENT_SOURCE_QUADRATURE_RESOLUTION_CHECKER(tree, radii_by_panel, flags, found) ==
    LET hit == {i \in Range0(tree.nqbxsources) : Cond2WorkItem(tree, radii_by_panel, i)}
    IN  [ panel_refine_flags |->
              [p \in DOMAIN flags |->
                  IF \E i \in hit : Cond2MyPanel(tree, i) = p
                  THEN 1 ELSE flags[p]],
          found_panel_to_refine |-> IF hit # {} THEN 1 ELSE found ]

\* variant: the flag is assigned the outcome of the comparison
element_prop_threshold_checker_assign(element_property, threshold, flags, updated) ==
    LET over_threshold(ielement) == element_property[ielement] > threshold
    IN  [ refine_flags |->
              [ielement \in DOMAIN flags |->
                  IF over_threshold(ielement) THEN 1 ELSE 0],
          refine_flags_updated |->
              IF \E ielement \in DOMAIN element_property : over_threshold(ielement)
              THEN 1 ELSE updated ]

\* variant: an element at the threshold is flagged too
element_prop_threshold_checker_ge(element_property, threshold, flags, updated) ==
    LET over_threshold(ielement) == element_property[ielement] >= threshold
    IN  [ refine_flags |->
              [ielement \in DOMAIN flags |->
                  IF over_threshold(ielement) THEN 1 ELSE flags[ielement]],
          refine_flags_updated |->
              IF \E ielement \in DOMAIN element_property : over_threshold(ielement)
              THEN 1 ELSE updated ]

\* The loopy kernel of element_prop_threshold_checker, over all ielement.
element_prop_threshold_checker(element_property, threshold, flags, updated) ==
    LET over_threshold(ielement) == element_property[ielement] > threshold
    IN  [ refine_flags |->
              [ielement \in DOMAIN flags |->
                  IF over_threshold(ielement) THEN 1 ELSE flags[ielement]],
          refine_flags_updated |->
              IF \E ielement \in DOMAIN element_property : over_threshold(ielement)
              THEN 1 ELSE updated ]

\* ---------------------------------------------------------------- wrangler
\* Each check returns [refine_flags |-> the array after the call (it is
\* modified in place), result |-> the returned boolean].

\* variant: the scalar the kernel sets is never read back
check_element_prop_threshold_unreported(element_property, threshold, flags) ==
    LET out == element_prop_threshold_checker(element_property, threshold, flags, 0)
    IN  [ refine_flags |-> out.refine_flags,
          result |-> FALSE ]

\* variant: the boolean reports a flag that changed
check_element_prop_threshold_changed(element_property, threshold, flags) ==
    LET out == element_prop_threshold_checker(element_property, threshold, flags, 0)
    IN  [ refine_flags |-> out.refine_flags,
          result |-> (out.refine_flags # flags) ]

check_element_prop_threshold(element_property, threshold, flags) ==
    LET out == element_prop_threshold_checker(element_property, threshold, flags, 0)
    IN  [ refine_flags |-> out.refine_flags,
          result |-> (out.refine_flags_updated = 1) ]

\* radii: bind(stage1_density_discr, sym.expansion_radii(...)), per center.
check_expansion_disks_undisturbed_by_sources(tree, radii, tol, flags) ==
    LET out == EXPANSION_DISK_UNDISTURBED_BY_SOURCES_CHECKER(tree, radii, tol, flags, 0)
    IN  [ refine_flags |-> out.panel_refine_flags,
          result |-> (out.found_panel_to_refine = 1) ]

\* radii: bind(stage2_density_discr, sym._source_danger_zone_radii(...)), per panel.
check_sufficient_source_quadrature_resolution(tree, radii, flags) ==
    LET out == SUFFICIENT_SOURCE_QUADRATURE_RESOLUTION_CHECKER(tree, radii, flags, 0)
    IN  [ refine_flags |-> out.panel_refine_flags,
          result |-> (out.found_panel_to_refine = 1) ]

make_empty_refine_flags(discr) == [e \in Range0(discr.nelements) |-> 0]

\* ---------------------------------------------------------- discretizations
\* A discretization is [id, nelements, quad_resolution, scaled_max_curv,
\* source_danger_zone_radii]: a fresh id per object built, and the
\* per-element quantities that bind(discr, sym...) evaluates on it.  Element e
\* carries one node at <<e, 1>> and two expansion centers, at <<e, 0>> and
\* <<e, 2>>; the expansion radius of a center is the quadrature resolution of
\* its element (sym.expansion_radii is a multiple of sym._quad_resolution).

PropVals == {1, 2}
DangerRadii == {0, 1, 2}
\* An optional float: <<>> is Python's None, <<t>> the value t.
LengthScales == {<<>>, <<1>>, <<2>>}
CurvatureThresholds == {<<>>, <<1>>}
\* 1/2, and the default 0.025
Tolerances == {<<1, 2>>, <<1, 40>>}
DefaultTolerance == <<1, 40>>

\* Quantities a stage never evaluates are left at a fixed value.
Discretizations(st, id, n) ==
    { [ id |-> id, nelements |-> n, quad_resolution |-> q, scaled_max_curv |-> c,
        source_danger_zone_radii |-> d ] :
        q \in [Range0(n) -> IF st = 1 THEN PropVals ELSE {1}],
        c \in [Range0(n) -> IF st = 1 THEN PropVals ELSE {1}],
        d \in [Range0(n) -> IF st = 2 THEN DangerRadii ELSE {0}] }

DiscrNodes(discr) == [i \in Range0(discr.nelements) |-> <<i, 1>>]

DiscrCenters(discr) ==
    [i \in Range0(2 * discr.nelements) |-> <<i \div 2, 2 * (i % 2)>>]

\* sym.expansion_radii(..., granularity=GRANULARITY_CENTER)
CenterRadii(discr) ==
    [i \in Range0(2 * discr.nelements) |-> discr.quad_resolution[i \div 2]]

\* wrangler.build_tree(places, sources_list, use_stage2_discr): sources are
\* the nodes of source_discr, centers those of the stage-1 discretization.
build_tree(source_discr, center_discr) ==
    LET ns == source_discr.nelements
        nc == 2 * center_discr.nelements
        src == DiscrNodes(source_discr)
        ctr == DiscrCenters(center_discr)
    IN  BuildTree([u \in Range0(ns + nc) |-> IF u < ns THEN src[u] ELSE ctr[u - ns]],
                  ns, nc,
                  [p \in 0 .. source_discr.nelements |-> p],
                  [p \in 0 .. center_discr.nelements |-> 2 * p],
                  source_discr.nelements)

NumFlagged(flags) == Cardinality({e \in DOMAIN flags : flags[e] # 0})

\* Element e of the refined mesh is element e of the old one when that was
\* not flagged; a flagged element is replaced by a child and its second child
\* is appended.
SameElement(old, new, e) ==
    /\ new.quad_resolution[e] = old.quad_resolution[e]
    /\ new.scaled_max_curv[e] = old.scaled_max_curv[e]
    /\ new.source_danger_zone_radii[e] = old.source_danger_zone_radii[e]

\* variant: every connection starts at the first discretization
refineFromFirst(st, discr, flags) ==
    LET n == discr.nelements + NumFlagged(flags)
    IN  IF n > MaxElems THEN {}
        ELSE { [ from_discr |-> 0, to_discr |-> d ] :
                 d \in { x \in Discretizations(st, discr.id + 1, n) :
                           \A e \in Range0(discr.nelements) :
                               flags[e] = 0 => SameElement(discr, x, e) } }

\* wrangler.refine: refiner.refine(flags) and make_refinement_connection.  The
\* refiner bisects every flagged element; the connection goes from the
\* discretization passed in to a newly built one.
refine(st, discr, flags) ==
    LET n == discr.nelements + NumFlagged(flags)
    IN  IF n > MaxElems THEN {}
        ELSE { [ from_discr |-> discr.id, to_discr |-> d ] :
                 d \in { x \in Discretizations(st, discr.id + 1, n) :
                           \A e \in Range0(discr.nelements) :
                               flags[e] = 0 => SameElement(discr, x, e) } }

\* variant: the cap test lets one more iteration through
CapReachedLate(n, m) == n > m + 1

\* variant: there is no iteration cap
CapReachedNever(n, m) == FALSE

\* if niter > maxiter:
CapReached(n, m) == n > m

\* variant: a uniform round flags the first element only
UniformFlagsFirst(discr) == [e \in Range0(discr.nelements) |-> IF e = 0 THEN 1 ELSE 0]

\* np.ones(stage2_density_discr.mesh.nelements, dtype=np.bool)
UniformFlags(discr) == [e \in Range0(discr.nelements) |-> 1]

\* _warn_max_iterations: the warning text carries len(violated_criteria), the
\* tolerance and the numbered history.
warn_max_iterations(vc, tol) ==
    [ niterations |-> Len(vc), tolerance |-> tol, criteria |-> vc ]

Join(ivc) ==
    IF Len(ivc) = 1 THEN ivc[1]
    ELSE IF Len(ivc) = 2 THEN ivc[1] \o " and " \o ivc[2]
    ELSE ivc[1] \o " and " \o ivc[2] \o " and " \o ivc[3]

Event(op, discr, arg, result) ==
    [ op |-> op, pc |-> pc, niter |-> niter, discr |-> discr.id,
      nelements |-> discr.nelements, arg |-> arg, result |-> result ]

\* ------------------------------------------------------------------- Init

NoDiscr == [ id |-> -1, nelements |-> 0 ]

\* variant: the list of violated criteria starts empty
InitCommonNoSentinel ==
    /\ maxiter \in 0 .. MaxIterBound
    /\ expansion_disturbance_tolerance = DefaultTolerance
    /\ connections = <<>>
    /\ violated_criteria = <<>>
    /\ iter_violated_criteria = <<>>
    /\ niter = 0
    /\ round = 0
    /\ refine_flags = None
    /\ warnings = <<>>
    /\ retval = None
    /\ refine_flags_updated = 0
    /\ work = <<>>
    /\ log = <<>>
    /\ chk = None

InitCommon ==
    /\ maxiter \in 0 .. MaxIterBound
    /\ expansion_disturbance_tolerance = DefaultTolerance
    /\ connections = <<>>
    /\ violated_criteria = <<>>
    /\ iter_violated_criteria = <<"start">>
    /\ niter = 0
    /\ round = 0
    /\ refine_flags = None
    /\ warnings = <<>>
    /\ retval = None
    /\ refine_flags_updated = 0
    /\ work = <<>>
    /\ log = <<>>
    /\ chk = None

InitStage1 ==
    /\ stage = 1
    /\ kernel_length_scale \in LengthScales
    /\ scaled_max_curvature_threshold \in CurvatureThresholds
    /\ force_stage2_uniform_refinement_rounds = 0
    /\ density_discr \in Discretizations(1, 0, 1)
    /\ stage1_density_discr = density_discr
    /\ stage2_density_discr = NoDiscr
    /\ pc = "s1_while"
    /\ InitCommon

InitStage2 ==
    /\ stage = 2
    /\ kernel_length_scale = <<>>
    /\ scaled_max_curvature_threshold = <<>>
    /\ force_stage2_uniform_refinement_rounds \in 0 .. MaxRounds
    /\ density_discr = NoDiscr
    /\ stage1_density_discr \in Discretizations(2, 0, 1)
    /\ stage2_density_discr = stage1_density_discr
    /\ pc = "s2_while"
    /\ InitCommon

Init == InitStage1 \/ InitStage2

\* assigned only while a kernel runs work item by work item
knlvars == <<refine_flags_updated, work>>

\* never assigned after entry
cfgvars == <<stage, maxiter, kernel_length_scale, scaled_max_curvature_threshold, expansion_disturbance_tolerance, force_stage2_uniform_refinement_rounds, density_discr, chk>>

\* --------------------------------------------------------------- stage 1

\* while iter_violated_criteria: (false) -> leave the loop
S1Converged ==
    /\ pc = "s1_while"
    /\ iter_violated_criteria = <<>>
    /\ pc' = "s1_return"
    /\ UNCHANGED <<cfgvars, knlvars, round, stage1_density_discr, stage2_density_discr, connections, violated_criteria, iter_violated_criteria, niter, refine_flags, warnings, retval, log>>

\* niter > maxiter: warn and break
\* variant: the cap ends the loop without a warning
S1MaxIterSilent ==
    /\ pc = "s1_while"
    /\ iter_violated_criteria # <<>>
    /\ CapReached(niter + 1, maxiter)
    /\ iter_violated_criteria' = <<>>
    /\ niter' = niter + 1
    /\ pc' = "s1_return"
    /\ UNCHANGED <<cfgvars, knlvars, round, stage1_density_discr, stage2_density_discr, connections, violated_criteria, refine_flags, warnings, retval, log>>

S1MaxIter ==
    /\ pc = "s1_while"
    /\ iter_violated_criteria # <<>>
    /\ CapReached(niter + 1, maxiter)
    /\ iter_violated_criteria' = <<>>
    /\ niter' = niter + 1
    /\ warnings' = Append(warnings, warn_max_iterations(violated_criteria, expansion_disturbance_tolerance))
    /\ pc' = "s1_return"
    /\ UNCHANGED <<cfgvars, knlvars, round, stage1_density_discr, stage2_density_discr, connections, violated_criteria, refine_flags, retval, log>>

\* variant: the flags are sized to the input discretization
S1BeginIterationInputSized ==
    /\ pc = "s1_while"
    /\ iter_violated_criteria # <<>>
    /\ ~CapReached(niter + 1, maxiter)
    /\ iter_violated_criteria' = <<>>
    /\ niter' = niter + 1
    /\ refine_flags' = make_empty_refine_flags(density_discr)
    /\ log' = Append(log, [Event("make_empty_refine_flags", density_discr, "", FALSE) EXCEPT !.niter = niter + 1])
    /\ pc' = "s1_kls"
    /\ UNCHANGED <<cfgvars, knlvars, round, stage1_density_discr, stage2_density_discr, connections, violated_criteria, warnings, retval>>

\* a new iteration: fresh flags for the current discretization
S1BeginIteration ==
    /\ pc = "s1_while"
    /\ iter_violated_criteria # <<>>
    /\ ~CapReached(niter + 1, maxiter)
    /\ iter_violated_criteria' = <<>>
    /\ niter' = niter + 1
    /\ refine_flags' = make_empty_refine_flags(stage1_density_discr)
    /\ log' = Append(log, [Event("make_empty_refine_flags", stage1_density_discr, "", FALSE) EXCEPT !.niter = niter + 1])
    /\ pc' = "s1_kls"
    /\ UNCHANGED <<cfgvars, knlvars, round, stage1_density_discr, stage2_density_discr, connections, violated_criteria, warnings, retval>>

\* if kernel_length_scale is not None: threshold check on quad_resolution
S1CheckKernelLengthScale ==
    /\ pc = "s1_kls"
    /\ IF kernel_length_scale # <<>>
       THEN LET r == check_element_prop_threshold(stage1_density_discr.quad_resolution, kernel_length_scale[1], refine_flags)
                violates_kernel_length_scale == r.result
            IN  /\ refine_flags' = r.refine_flags
                /\ iter_violated_criteria' =
                       IF violates_kernel_length_scale
                       THEN Append(iter_violated_criteria, "kernel length scale")
                       ELSE iter_violated_criteria
                /\ log' = Append(log, Event("check_element_prop_threshold", stage1_density_discr, "kernel length scale", r.result))
       ELSE UNCHANGED <<refine_flags, iter_violated_criteria, log>>
    /\ pc' = "s1_curv"
    /\ UNCHANGED <<cfgvars, knlvars, round, stage1_density_discr, stage2_density_discr, connections, violated_criteria, niter, warnings, retval>>

\* variant: a curvature violation is flagged but not recorded
S1CheckCurvatureUnrecorded ==
    /\ pc = "s1_curv"
    /\ IF scaled_max_curvature_threshold # <<>>
       THEN LET r == check_element_prop_threshold(stage1_density_discr.scaled_max_curv, scaled_max_curvature_threshold[1], refine_flags)
            IN  /\ refine_flags' = r.refine_flags
                /\ log' = Append(log, Event("check_element_prop_threshold", stage1_density_discr, "curvature", r.result))
                /\ UNCHANGED iter_violated_criteria
       ELSE UNCHANGED <<refine_flags, iter_violated_criteria, log>>
    /\ pc' = "s1_tree"
    /\ UNCHANGED <<cfgvars, knlvars, round, stage1_density_discr, stage2_density_discr, connections, violated_criteria, niter, warnings, retval>>

\* if scaled_max_curvature_threshold is not None: threshold check on curvature
S1CheckCurvature ==
    /\ pc = "s1_curv"
    /\ IF scaled_max_curvature_threshold # <<>>
       THEN LET r == check_element_prop_threshold(stage1_density_discr.scaled_max_curv, scaled_max_curvature_threshold[1], refine_flags)
                violates_scaled_max_curv == r.result
            IN  /\ refine_flags' = r.refine_flags
                /\ iter_violated_criteria' =
                       IF violates_scaled_max_curv
                       THEN Append(iter_violated_criteria, "curvature")
                       ELSE iter_violated_criteria
                /\ log' = Append(log, Event("check_element_prop_threshold", stage1_density_discr, "curvature", r.result))
       ELSE UNCHANGED <<refine_flags, iter_violated_criteria, log>>
    /\ pc' = "s1_tree"
    /\ UNCHANGED <<cfgvars, knlvars, round, stage1_density_discr, stage2_density_discr, connections, violated_criteria, niter, warnings, retval>>

\* variant: Condition 1 runs whatever the threshold checks found
S1CheckDisturbedExpansionsAlways ==
    /\ pc = "s1_tree"
    /\ LET tree == build_tree(stage1_density_discr, stage1_density_discr)
           r == check_expansion_disks_undisturbed_by_sources(tree, CenterRadii(stage1_density_discr), expansion_disturbance_tolerance, refine_flags)
           has_disturbed_expansions == r.result
       IN  /\ refine_flags' = r.refine_flags
           /\ iter_violated_criteria' =
                  IF has_disturbed_expansions
                  THEN Append(iter_violated_criteria, "disturbed expansions")
                  ELSE iter_violated_criteria
           /\ log' = log \o << Event("build_tree", stage1_density_discr, "", FALSE),
                                Event("check_expansion_disks_undisturbed_by_sources", stage1_density_discr, "disturbed expansions", r.result) >>
    /\ pc' = "s1_refine"
    /\ UNCHANGED <<cfgvars, knlvars, round, stage1_density_discr, stage2_density_discr, connections, violated_criteria, niter, warnings, retval>>

\* variant: Condition 1 is skipped once any iteration of the run has refined
S1CheckDisturbedExpansionsSticky ==
    /\ pc = "s1_tree"
    /\ IF iter_violated_criteria = <<>> /\ violated_criteria = <<>>
       THEN LET tree == build_tree(stage1_density_discr, stage1_density_discr)
                r == check_expansion_disks_undisturbed_by_sources(tree, CenterRadii(stage1_density_discr), expansion_disturbance_tolerance, refine_flags)
                has_disturbed_expansions == r.result
            IN  /\ refine_flags' = r.refine_flags
                /\ iter_violated_criteria' =
                       IF has_disturbed_expansions
                       THEN Append(iter_violated_criteria, "disturbed expansions")
                       ELSE iter_violated_criteria
                /\ log' = log \o << Event("build_tree", stage1_density_discr, "", FALSE),
                                     Event("check_expansion_disks_undisturbed_by_sources", stage1_density_discr, "disturbed expansions", r.result) >>
       ELSE UNCHANGED <<refine_flags, iter_violated_criteria, log>>
    /\ pc' = "s1_refine"
    /\ UNCHANGED <<cfgvars, knlvars, round, stage1_density_discr, stage2_density_discr, connections, violated_criteria, niter, warnings, retval>>

\* if not iter_violated_criteria: build the tree and run Condition 1
S1CheckDisturbedExpansions ==
    /\ pc = "s1_tree"
    /\ IF iter_violated_criteria = <<>>
       THEN LET tree == build_tree(stage1_density_discr, stage1_density_discr)
                r == check_expansion_disks_undisturbed_by_sources(tree, CenterRadii(stage1_density_discr), expansion_disturbance_tolerance, refine_flags)
                has_disturbed_expansions == r.result
            IN  /\ refine_flags' = r.refine_flags
                /\ iter_violated_criteria' =
                       IF has_disturbed_expansions
                       THEN Append(iter_violated_criteria, "disturbed expansions")
                       ELSE iter_violated_criteria
                /\ log' = log \o << Event("build_tree", stage1_density_discr, "", FALSE),
                                     Event("check_expansion_disks_undisturbed_by_sources", stage1_density_discr, "disturbed expansions", r.result) >>
       ELSE UNCHANGED <<refine_flags, iter_violated_criteria, log>>
    /\ pc' = "s1_refine"
    /\ UNCHANGED <<cfgvars, knlvars, round, stage1_density_discr, stage2_density_discr, connections, violated_criteria, niter, warnings, retval>>

\* variant: the history gets one entry per violated criterion
S1RefineSplitHistory ==
    /\ pc = "s1_refine"
    /\ IF iter_violated_criteria # <<>>
       THEN \E conn \in refine(1, stage1_density_discr, refine_flags) :
                /\ violated_criteria' = violated_criteria \o iter_violated_criteria
                /\ stage1_density_discr' = conn.to_discr
                /\ connections' = Append(connections, [from_discr |-> conn.from_discr, to_discr |-> conn.to_discr.id])
                /\ log' = Append(log, Event("refine", stage1_density_discr, refine_flags, FALSE))
       ELSE UNCHANGED <<violated_criteria, stage1_density_discr, connections, log>>
    /\ pc' = "s1_while"
    /\ refine_flags' = None
    /\ UNCHANGED <<cfgvars, knlvars, round, stage2_density_discr, iter_violated_criteria, niter, warnings, retval>>

\* if iter_violated_criteria: record them, refine, chain; del refine_flags
S1Refine ==
    /\ pc = "s1_refine"
    /\ IF iter_violated_criteria # <<>>
       THEN \E conn \in refine(1, stage1_density_discr, refine_flags) :
                /\ violated_criteria' = Append(violated_criteria, Join(iter_violated_criteria))
                /\ stage1_density_discr' = conn.to_discr
                /\ connections' = Append(connections, [from_discr |-> conn.from_discr, to_discr |-> conn.to_discr.id])
                /\ log' = Append(log, Event("refine", stage1_density_discr, refine_flags, FALSE))
       ELSE UNCHANGED <<violated_criteria, stage1_density_discr, connections, log>>
    /\ pc' = "s1_while"
    /\ refine_flags' = None
    /\ UNCHANGED <<cfgvars, knlvars, round, stage2_density_discr, iter_violated_criteria, niter, warnings, retval>>

\* variant: the input discretization is returned instead of the refined one
S1ReturnInput ==
    /\ pc = "s1_return"
    /\ pc' = "done"
    /\ retval' = [ discr |-> density_discr,
                   conn |-> [from_discr |-> density_discr.id, connections |-> connections] ]
    /\ UNCHANGED <<cfgvars, knlvars, round, stage1_density_discr, stage2_density_discr, connections, violated_criteria, iter_violated_criteria, niter, refine_flags, warnings, log>>

\* ChainedDiscretizationConnection(connections, from_discr=density_discr)
S1Return ==
    /\ pc = "s1_return"
    /\ pc' = "done"
    /\ retval' = [ discr |-> stage1_density_discr,
                   conn |-> [from_discr |-> density_discr.id, connections |-> connections] ]
    /\ UNCHANGED <<cfgvars, knlvars, round, stage1_density_discr, stage2_density_discr, connections, violated_criteria, iter_violated_criteria, niter, refine_flags, warnings, log>>

\* --------------------------------------------------------------- stage 2

S2Converged ==
    /\ pc = "s2_while"
    /\ iter_violated_criteria = <<>>
    /\ pc' = "s2_uniform"
    /\ UNCHANGED <<cfgvars, knlvars, round, stage1_density_discr, stage2_density_discr, connections, violated_criteria, iter_violated_criteria, niter, refine_flags, warnings, retval, log>>

\* variant: the cap also skips the forced uniform rounds
S2MaxIterNoUniform ==
    /\ pc = "s2_while"
    /\ iter_violated_criteria # <<>>
    /\ CapReached(niter + 1, maxiter)
    /\ iter_violated_criteria' = <<>>
    /\ niter' = niter + 1
    /\ round' = force_stage2_uniform_refinement_rounds
    /\ warnings' = Append(warnings, warn_max_iterations(violated_criteria, expansion_disturbance_tolerance))
    /\ pc' = "s2_uniform"
    /\ UNCHANGED <<cfgvars, knlvars, stage1_density_discr, stage2_density_discr, connections, violated_criteria, refine_flags, retval, log>>

S2MaxIter ==
    /\ pc = "s2_while"
    /\ iter_violated_criteria # <<>>
    /\ CapReached(niter + 1, maxiter)
    /\ iter_violated_criteria' = <<>>
    /\ niter' = niter + 1
    /\ warnings' = Append(warnings, warn_max_iterations(violated_criteria, expansion_disturbance_tolerance))
    /\ pc' = "s2_uniform"
    /\ UNCHANGED <<cfgvars, knlvars, round, stage1_density_discr, stage2_density_discr, connections, violated_criteria, refine_flags, retval, log>>

\* variant: the tree of the first iteration is kept for the later ones
S2BeginIterationKeepTree ==
    /\ pc = "s2_while"
    /\ iter_violated_criteria # <<>>
    /\ ~CapReached(niter + 1, maxiter)
    /\ iter_violated_criteria' = <<>>
    /\ niter' = niter + 1
    /\ refine_flags' = make_empty_refine_flags(stage2_density_discr)
    /\ log' = log \o (IF niter = 0
                       THEN << [Event("make_quad_stage2_discr", stage2_density_discr, "", FALSE) EXCEPT !.niter = niter + 1],
                               [Event("build_tree", stage2_density_discr, stage1_density_discr.id, FALSE) EXCEPT !.niter = niter + 1] >>
                       ELSE <<>>)
                   \o << [Event("make_empty_refine_flags", stage2_density_discr, "", FALSE) EXCEPT !.niter = niter + 1] >>
    /\ pc' = "s2_check"
    /\ UNCHANGED <<cfgvars, knlvars, round, stage1_density_discr, stage2_density_discr, connections, violated_criteria, warnings, retval>>

\* a new iteration: quad discretization, tree, peer lists, fresh flags
S2BeginIteration ==
    /\ pc = "s2_while"
    /\ iter_violated_criteria # <<>>
    /\ ~CapReached(niter + 1, maxiter)
    /\ iter_violated_criteria' = <<>>
    /\ niter' = niter + 1
    /\ refine_flags' = make_empty_refine_flags(stage2_density_discr)
    /\ log' = log \o << [Event("make_quad_stage2_discr", stage2_density_discr, "", FALSE) EXCEPT !.niter = niter + 1],
                         [Event("build_tree", stage2_density_discr, stage1_density_discr.id, FALSE) EXCEPT !.niter = niter + 1],
                         [Event("make_empty_refine_flags", stage2_density_discr, "", FALSE) EXCEPT !.niter = niter + 1] >>
    /\ pc' = "s2_check"
    /\ UNCHANGED <<cfgvars, knlvars, round, stage1_density_discr, stage2_density_discr, connections, violated_criteria, warnings, retval>>

\* Condition 2 on the tree of this iteration
S2CheckQuadResolution ==
    /\ pc = "s2_check"
    /\ LET tree == build_tree(stage2_density_discr, stage1_density_discr)
           r == check_sufficient_source_quadrature_resolution(tree, stage2_density_discr.source_danger_zone_radii, refine_flags)
           has_insufficient_quad_resolution == r.result
       IN  /\ refine_flags' = r.refine_flags
           /\ iter_violated_criteria' =
                  IF has_insufficient_quad_resolution
                  THEN Append(iter_violated_criteria, "insufficient quadrature resolution")
                  ELSE iter_violated_criteria
           /\ log' = Append(log, Event("check_sufficient_source_quadrature_resolution", stage2_density_discr, "insufficient quadrature resolution", r.result))
    /\ pc' = "s2_refine"
    /\ UNCHANGED <<cfgvars, knlvars, round, stage1_density_discr, stage2_density_discr, connections, violated_criteria, niter, warnings, retval>>

\* variant: the next iteration starts on the discretization that was
\* current before the refinement
S2RefineStale ==
    /\ pc = "s2_refine"
    /\ IF iter_violated_criteria # <<>>
       THEN \E conn \in refine(2, stage2_density_discr, refine_flags) :
                /\ violated_criteria' = Append(violated_criteria, Join(iter_violated_criteria))
                /\ connections' = Append(connections, [from_discr |-> conn.from_discr, to_discr |-> conn.to_discr.id])
                /\ log' = Append(log, Event("refine", stage2_density_discr, refine_flags, FALSE))
       ELSE UNCHANGED <<violated_criteria, connections, log>>
    /\ pc' = "s2_while"
    /\ refine_flags' = None
    /\ UNCHANGED <<cfgvars, knlvars, round, stage1_density_discr, stage2_density_discr, iter_violated_criteria, niter, warnings, retval>>

S2Refine ==
    /\ pc = "s2_refine"
    /\ IF iter_violated_criteria # <<>>
       THEN \E conn \in refine(2, stage2_density_discr, refine_flags) :
                /\ violated_criteria' = Append(violated_criteria, Join(iter_violated_criteria))
                /\ stage2_density_discr' = conn.to_discr
                /\ connections' = Append(connections, [from_discr |-> conn.from_discr, to_discr |-> conn.to_discr.id])
                /\ log' = Append(log, Event("refine", stage2_density_discr, refine_flags, FALSE))
       ELSE UNCHANGED <<violated_criteria, stage2_density_discr, connections, log>>
    /\ pc' = "s2_while"
    /\ refine_flags' = None
    /\ UNCHANGED <<cfgvars, knlvars, round, stage1_density_discr, iter_violated_criteria, niter, warnings, retval>>

\* for round in range(force_stage2_uniform_refinement_rounds): refine with np.ones
S2UniformRound ==
    /\ pc = "s2_uniform"
    /\ round < force_stage2_uniform_refinement_rounds
    /\ LET ones == UniformFlags(stage2_density_discr)
       IN  \E conn \in refine(2, stage2_density_discr, ones) :
                /\ stage2_density_discr' = conn.to_discr
                /\ connections' = Append(connections, [from_discr |-> conn.from_discr, to_discr |-> conn.to_discr.id])
                /\ log' = Append(log, Event("refine", stage2_density_discr, ones, FALSE))
    /\ round' = round + 1
    /\ UNCHANGED <<cfgvars, knlvars, stage1_density_discr, violated_criteria, iter_violated_criteria, niter, refine_flags, warnings, retval, pc>>

S2Return ==
    /\ pc = "s2_uniform"
    /\ ~(round < force_stage2_uniform_refinement_rounds)
    /\ pc' = "done"
    /\ retval' = [ discr |-> stage2_density_discr,
                   conn |-> [from_discr |-> stage1_density_discr.id, connections |-> connections] ]
    /\ UNCHANGED <<cfgvars, knlvars, round, stage1_density_discr, stage2_density_discr, connections, violated_criteria, iter_violated_criteria, niter, refine_flags, warnings, log>>

Next ==
    \/ S1Converged
    \/ S1MaxIter
    \/ S1BeginIteration
    \/ S1CheckKernelLengthScale
    \/ S1CheckCurvature
    \/ S1CheckDisturbedExpansions
    \/ S1Refine
    \/ S1Return
    \/ S2Converged
    \/ S2MaxIter
    \/ S2BeginIteration
    \/ S2CheckQuadResolution
    \/ S2Refine
    \/ S2UniformRound
    \/ S2Return

Spec == Init /\ [][Next]_vars

\* ------------------------------------------------- properties of the loops
\* The log holds one event per call a run makes, in call order; the
\* definitions below read the run off the log.

CheckOps == {"check_element_prop_threshold", "check_expansion_disks_undisturbed_by_sources", "check_sufficient_source_quadrature_resolution"}

\* positions in the log of the refinements applied by a criterion loop
LoopRefines == {i \in DOMAIN log : log[i].op = "refine" /\ log[i].pc \in {"s1_refine", "s2_refine"}}

\* positions in the log of the refinements applied by the uniform rounds
UniformRefines == {i \in DOMAIN log : log[i].op = "refine" /\ log[i].pc = "s2_uniform"}

\* all refinements applied so far, in application order
AllRefines == SelectSeq(log, LAMBDA ev : ev.op = "refine")

InputDiscr == IF stage = 1 THEN density_discr ELSE stage1_density_discr

CurrentDiscr == IF stage = 1 THEN stage1_density_discr ELSE stage2_density_discr

Warned == warnings # <<>>

\* iteration i of the criterion loop evaluated the criteria
IterEvaluated(i) == \E k \in DOMAIN log : log[k].op = "make_empty_refine_flags" /\ log[k].niter = i

\* some checker of iteration i reported a violation
IterViolated(i) == \E k \in DOMAIN log : log[k].op \in CheckOps /\ log[k].niter = i /\ log[k].result

\* the names of the criteria iteration i found violated, in evaluation order
IterCriteria(i) ==
    LET evs == SelectSeq(log, LAMBDA ev : ev.op \in CheckOps /\ ev.niter = i /\ ev.result)
    IN  [j \in 1 .. Len(evs) |-> evs[j].arg]

\* the discretization violates a criterion configured for the running stage
ViolatesConfigured(d) ==
    LET zeros == [e \in Range0(d.nelements) |-> 0]
    IN  IF stage = 1
        THEN \/ /\ kernel_length_scale # <<>>
                /\ check_element_prop_threshold(d.quad_resolution, kernel_length_scale[1], zeros).result
             \/ /\ scaled_max_curvature_threshold # <<>>
                /\ check_element_prop_threshold(d.scaled_max_curv, scaled_max_curvature_threshold[1], zeros).result
             \/ check_expansion_disks_undisturbed_by_sources(build_tree(d, d), CenterRadii(d), expansion_disturbance_tolerance, zeros).result
        ELSE check_sufficient_source_quadrature_resolution(build_tree(d, stage1_density_discr), d.source_danger_zone_radii, zeros).result

\* the criterion loop has just exited
AtLoopExit == pc = "s1_return" \/ (pc = "s2_uniform" /\ round = 0)

\* C1: in every state of a stage-1 or stage-2 run, for every maxiter >= 0,
\* the criterion loop has called wrangler.refine at most maxiter times; the
\* uniform rounds of stage 2 are not counted.
C1_LoopRefinesAtMostMaxiter == Cardinality(LoopRefines) <= maxiter

\* a finished run whose criterion loop used the whole budget
C1_Witness ==
    /\ pc = "done"
    /\ maxiter = MaxIterBound
    /\ Cardinality(LoopRefines) = maxiter

\* C2 as stated, for a budget of at least one refinement: when the criterion
\* loop exits, the warning has been emitted if and only if the discretization
\* reached violates a configured criterion.
C2_WarnedIffStillViolated ==
    (AtLoopExit /\ maxiter >= 1) => (Warned <=> ViolatesConfigured(CurrentDiscr))

\* C2 amended: when the criterion loop exits, the warning has been emitted if
\* and only if every one of the first maxiter evaluations found a violation,
\* in which case maxiter refinements were applied and the discretization the
\* last of them produced was not evaluated; a run without the warning ends
\* its loop on a discretization that satisfies every configured criterion;
\* the warning is emitted at most once.
C2_WarnedIffBudgetSpent ==
    AtLoopExit =>
        /\ Warned <=> (\A i \in 1 .. maxiter : IterViolated(i))
        /\ Warned => /\ Cardinality(LoopRefines) = maxiter
                     /\ ~IterEvaluated(maxiter + 1)
        /\ ~Warned => ~ViolatesConfigured(CurrentDiscr)
        /\ Len(warnings) <= 1

\* the last refinement of the budget repaired the mesh and the run warned
C2_Witness ==
    /\ AtLoopExit
    /\ maxiter >= 1
    /\ Warned
    /\ ~ViolatesConfigured(CurrentDiscr)

\* C3: a stage-1 run whose first n evaluations each found a violation and
\* whose evaluation n + 1 found none, n < maxiter, applied exactly n
\* refinements, the i-th in iteration i on the discretization the (i-1)-th
\* produced (the input for i = 1), stopped after evaluation n + 1 without a
\* warning, and returns the discretization the n-th refinement produced.
C3_ConvergesAfterNRefinements ==
    (stage = 1 /\ pc = "done") =>
        \A n \in 0 .. (maxiter - 1) :
            ( /\ \A i \in 1 .. n : IterViolated(i)
              /\ IterEvaluated(n + 1)
              /\ ~IterViolated(n + 1) )
            => /\ Cardinality(LoopRefines) = n
               /\ Len(AllRefines) = n
               /\ \A i \in 1 .. n :
                    /\ AllRefines[i].niter = i
                    /\ AllRefines[i].discr = (IF i = 1 THEN density_discr.id ELSE connections[i - 1].to_discr)
                    /\ \A k \in DOMAIN log :
                         (log[k].niter = i /\ log[k].op \in CheckOps) => log[k].discr = AllRefines[i].discr
               /\ \A k \in DOMAIN log :
                    (log[k].niter = n + 1 /\ log[k].op \in CheckOps)
                        => log[k].discr = (IF n = 0 THEN density_discr.id ELSE connections[n].to_discr)
               /\ niter = n + 1
               /\ ~IterEvaluated(n + 2)
               /\ ~Warned
               /\ retval.discr = stage1_density_discr
               /\ retval.discr.id = (IF n = 0 THEN density_discr.id ELSE connections[n].to_discr)

\* a stage-1 run that refined once and converged on its second evaluation
C3_Witness ==
    /\ stage = 1
    /\ pc = "done"
    /\ IterViolated(1)
    /\ IterEvaluated(2)
    /\ ~IterViolated(2)
    /\ maxiter > 1
    /\ retval.discr.id = connections[1].to_discr

\* C4: once a criterion loop has exited on the cap, exactly maxiter
\* refinements have been applied by it, the history the warning carries has
\* exactly maxiter entries, entry i naming the criteria iteration i found
\* violated before refinement i, and the count the warning prints is maxiter.
C4_CapExitHistory ==
    \A w \in DOMAIN warnings :
        /\ Cardinality(LoopRefines) = maxiter
        /\ Len(warnings[w].criteria) = maxiter
        /\ warnings[w].niterations = maxiter
        /\ \A i \in 1 .. maxiter :
             /\ \E k \in LoopRefines : log[k].niter = i
             /\ IterCriteria(i) # <<>>
             /\ warnings[w].criteria[i] = Join(IterCriteria(i))

\* maxiter = 1 on a mesh that one refinement does not repair
C4_Witness ==
    /\ AtLoopExit
    /\ maxiter = 1
    /\ Warned
    /\ Len(warnings[1].criteria) = 1
    /\ Cardinality(LoopRefines) = 1
    /\ ViolatesConfigured(CurrentDiscr)

C6_UniformRounds ==
    stage = 2 =>
        /\ Cardinality(UniformRefines) = round
        /\ round <= force_stage2_uniform_refinement_rounds
        /\ pc \notin {"s2_uniform", "done"} => UniformRefines = {}
        /\ pc = "done" => Cardinality(UniformRefines) = force_stage2_uniform_refinement_rounds
        /\ \A i \in UniformRefines :
             /\ \A j \in DOMAIN log : j > i => j \in UniformRefines
             /\ DOMAIN log[i].arg = Range0(log[i].nelements)
             /\ \A e \in DOMAIN log[i].arg : log[i].arg[e] = 1
             /\ LET c == Len(connections) - (Len(log) - i)
                IN  /\ log[i].discr = connections[c].from_discr
                    /\ log[i].discr = (IF c = 1 THEN stage1_density_discr.id ELSE connections[c - 1].to_discr)

\* two uniform rounds, one of them on two elements or more
C6_Witness ==
    /\ stage = 2
    /\ pc = "done"
    /\ force_stage2_uniform_refinement_rounds = MaxRounds
    /\ Cardinality(UniformRefines) = MaxRounds
    /\ \E i \in UniformRefines : log[i].nelements > 1

\* C7: in every state of a run the connections are one per refinement
\* applied so far, in application order; the first starts at the input
\* discretization, each later one at the to_discr of the one before it, each
\* leads to a discretization distinct from all earlier ones, and the current
\* discretization (the returned one, once the run is done) is the last
\* to_discr, or the input when there is no connection; the connections of
\* the uniform rounds come after those of the criterion loop.
C7_ConnectionsFormChain ==
    /\ Len(connections) = Len(AllRefines)
    /\ \A i \in DOMAIN connections :
         /\ connections[i].from_discr = (IF i = 1 THEN InputDiscr.id ELSE connections[i - 1].to_discr)
         /\ connections[i].from_discr = AllRefines[i].discr
         /\ connections[i].to_discr # InputDiscr.id
         /\ \A j \in 1 .. (i - 1) : connections[j].to_discr # connections[i].to_discr
    /\ CurrentDiscr.id = (IF connections = <<>> THEN InputDiscr.id ELSE connections[Len(connections)].to_discr)
    /\ \A i \in LoopRefines : \A j \in UniformRefines : i < j
    /\ \A i \in DOMAIN AllRefines : \A j \in DOMAIN AllRefines :
         (AllRefines[i].pc = "s2_uniform" /\ AllRefines[j].pc = "s2_refine") => j < i
    /\ pc = "done" =>
         /\ retval.discr = CurrentDiscr
         /\ retval.conn.from_discr = InputDiscr.id
         /\ retval.conn.connections = connections

\* a stage-2 run returning a chain of a loop refinement and a uniform one
C7_Witness ==
    /\ stage = 2
    /\ pc = "done"
    /\ Len(retval.conn.connections) >= 2
    /\ LoopRefines # {}
    /\ UniformRefines # {}

\* ------------------------------------------------------ checker harness
\* The three check_* methods of RefinerWrangler called directly, up to
\* MaxCalls times on the same refine_flags array, on inputs drawn from small
\* sets: two panels, two sources, two centers, particles on the lattice
\* ChkCoords x ChkCoords, source 0 at the origin.

MaxCalls == 2

ChkPanels == 0 .. 1
ChkParticles == 0 .. 1
ChkCoords == 0 .. 1
ChkPoints == ChkCoords \X ChkCoords
ChkCenterRadii == {1, 2}
ChkPanelRadii == {0, 1}
ChkProps == {0, 1, 2}
ChkThresholds == {0, 1}

\* panel -> first particle tables: monotone, from 0 to the particle count
ChkStartTables ==
    { t \in [0 .. Cardinality(ChkPanels) -> 0 .. Cardinality(ChkParticles)] :
        /\ t[0] = 0
        /\ t[Cardinality(ChkPanels)] = Cardinality(ChkParticles)
        /\ \A p \in ChkPanels : t[p] <= t[p + 1] }

ChkIdentityTable == [p \in 0 .. Cardinality(ChkPanels) |-> p]

ChkGeometry ==
    { [ src |-> sp, ctr |-> cp ] :
        sp \in { f \in [ChkParticles -> ChkPoints] : f[0] = <<0, 0>> },
        cp \in [ChkParticles -> ChkPoints] }

ChkInputs ==
    { [ mode |-> "threshold", element_property |-> ep, threshold |-> t,
        src |-> [i \in ChkParticles |-> <<0, 0>>], ctr |-> [i \in ChkParticles |-> <<0, 0>>],
        src_starts |-> ChkIdentityTable, ctr_starts |-> ChkIdentityTable,
        radii |-> [i \in ChkParticles |-> 0], tol |-> DefaultTolerance ] :
        ep \in [ChkPanels -> ChkProps], t \in ChkThresholds }
    \cup
    { [ mode |-> "cond1", element_property |-> [p \in ChkPanels |-> 0], threshold |-> 0,
        src |-> g.src, ctr |-> g.ctr,
        src_starts |-> ChkIdentityTable, ctr_starts |-> cs,
        radii |-> r, tol |-> tol ] :
        g \in ChkGeometry, cs \in ChkStartTables, r \in [ChkParticles -> ChkCenterRadii],
        tol \in Tolerances }
    \cup
    { [ mode |-> "cond2", element_property |-> [p \in ChkPanels |-> 0], threshold |-> 0,
        src |-> g.src, ctr |-> g.ctr,
        src_starts |-> ss, ctr_starts |-> ChkIdentityTable,
        radii |-> r, tol |-> DefaultTolerance ] :
        g \in ChkGeometry, ss \in ChkStartTables, r \in [ChkPanels -> ChkPanelRadii] }

ChkTree ==
    LET ns == Cardinality(ChkParticles)
    IN  BuildTree([u \in Range0(2 * ns) |-> IF u < ns THEN chk.src[u] ELSE chk.ctr[u - ns]],
                  ns, ns, chk.src_starts, chk.ctr_starts, Cardinality(ChkPanels))

InitChk ==
    /\ stage = 0
    /\ chk \in ChkInputs
    /\ refine_flags \in [ChkPanels -> {0, 1}]
    /\ log = <<>>
    /\ pc = "chk"
    /\ maxiter = 0
    /\ kernel_length_scale = <<>>
    /\ scaled_max_curvature_threshold = <<>>
    /\ expansion_disturbance_tolerance = DefaultTolerance
    /\ force_stage2_uniform_refinement_rounds = 0
    /\ density_discr = NoDiscr
    /\ stage1_density_discr = NoDiscr
    /\ stage2_density_discr = NoDiscr
    /\ connections = <<>>
    /\ violated_criteria = <<>>
    /\ iter_violated_criteria = <<>>
    /\ niter = 0
    /\ round = 0
    /\ warnings = <<>>
    /\ retval = None
    /\ refine_flags_updated = 0
    /\ work = <<>>

Call(op, r) ==
    [ op |-> op, before |-> refine_flags, after |-> r.refine_flags, result |-> r.result ]

ChkUnchanged == UNCHANGED <<cfgvars, knlvars, round, stage1_density_discr, stage2_density_discr, connections, violated_criteria, iter_violated_criteria, niter, pc, warnings, retval>>

ChkCallThreshold ==
    /\ pc = "chk" /\ chk.mode = "threshold" /\ Len(log) < MaxCalls
    /\ LET r == check_element_prop_threshold(chk.element_property, chk.threshold, refine_flags)
       IN  /\ refine_flags' = r.refine_flags
           /\ log' = Append(log, Call("check_element_prop_threshold", r))
    /\ ChkUnchanged

ChkCallCond1 ==
    /\ pc = "chk" /\ chk.mode = "cond1" /\ Len(log) < MaxCalls
    /\ LET r == check_expansion_disks_undisturbed_by_sources(ChkTree, chk.radii, chk.tol, refine_flags)
       IN  /\ refine_flags' = r.refine_flags
           /\ log' = Append(log, Call("check_expansion_disks_undisturbed_by_sources", r))
    /\ ChkUnchanged

ChkCallCond2 ==
    /\ pc = "chk" /\ chk.mode = "cond2" /\ Len(log) < MaxCalls
    /\ LET r == check_sufficient_source_quadrature_resolution(ChkTree, chk.radii, refine_flags)
       IN  /\ refine_flags' = r.refine_flags
           /\ log' = Append(log, Call("check_sufficient_source_quadrature_resolution", r))
    /\ ChkUnchanged

NextChk == ChkCallThreshold \/ ChkCallCond1 \/ ChkCallCond2

SpecChk == InitChk /\ [][NextChk]_vars

\* ---------------------------------------------- properties of the checkers
\* Brute-force readings of the three criteria from the inputs of the call, in
\* user order, without the tree.

\* the panel of a particle under a panel -> first particle table
ChkOwner(starts, i) == CHOOSE p \in ChkPanels : starts[p] <= i /\ i < starts[p + 1]

\* source s lies in a leaf box that overlaps the bounding square of center
\* c's scaled disk
ChkCandidate(c, s) ==
    \A k \in 1 .. 2 :
        2 * chk.tol[2] * Abs(chk.ctr[c][k] - chk.src[s][k])
            <= 2 * (chk.tol[2] - chk.tol[1]) * chk.radii[c] + chk.tol[2]

\* distance(c, s) compared with (1 - tolerance) * radius(c): -1, 0 or 1
ChkCompare1(c, s) ==
    LET lhs == chk.tol[2] * chk.tol[2] * ((chk.ctr[c][1] - chk.src[s][1]) * (chk.ctr[c][1] - chk.src[s][1]) + (chk.ctr[c][2] - chk.src[s][2]) * (chk.ctr[c][2] - chk.src[s][2]))
        rhs == (chk.tol[2] - chk.tol[1]) * (chk.tol[2] - chk.tol[1]) * chk.radii[c] * chk.radii[c]
    IN  IF lhs < rhs THEN -1 ELSE IF lhs = rhs THEN 0 ELSE 1

\* element e owns a center with a source inside or on its scaled disk
ChkDisturbed(e) ==
    \E c \in ChkParticles : \E s \in ChkParticles :
        /\ ChkOwner(chk.ctr_starts, c) = e
        /\ ChkCandidate(c, s)
        /\ ChkCompare1(c, s) <= 0

\* element e owns a source with a center inside or on its danger zone
ChkUnderResolved(e) ==
    \E s \in ChkParticles : \E c \in ChkParticles :
        /\ ChkOwner(chk.src_starts, s) = e
        /\ (chk.ctr[c][1] - chk.src[s][1]) * (chk.ctr[c][1] - chk.src[s][1]) + (chk.ctr[c][2] - chk.src[s][2]) * (chk.ctr[c][2] - chk.src[s][2])
               <= chk.radii[e] * chk.radii[e]

\* element e violates the criterion the harness is calling
ChkViolates(e) ==
    IF chk.mode = "threshold" THEN chk.element_property[e] > chk.threshold
    ELSE IF chk.mode = "cond1" THEN ChkDisturbed(e)
    ELSE ChkUnderResolved(e)

\* C8: every call of check_element_prop_threshold leaves, for every element
\* e, flags[e] = 1 if P[e] > T and flags[e] as it was before otherwise; an
\* element with P[e] = T is therefore flagged after the call only if it was
\* before.
C8_ThresholdFlags ==
    \A k \in DOMAIN log :
        log[k].op = "check_element_prop_threshold" =>
            /\ DOMAIN log[k].after = DOMAIN log[k].before
            /\ \A e \in ChkPanels :
                 log[k].after[e] = (IF chk.element_property[e] > chk.threshold THEN 1 ELSE log[k].before[e])

\* one element at the threshold left unflagged, the other above it and flagged
C8_Witness ==
    \E k \in DOMAIN log : \E e1 \in ChkPanels : \E e2 \in ChkPanels :
        /\ log[k].op = "check_element_prop_threshold"
        /\ chk.element_property[e1] = chk.threshold
        /\ log[k].before[e1] = 0
        /\ log[k].after[e1] = 0
        /\ chk.element_property[e2] > chk.threshold
        /\ log[k].before[e2] = 0
        /\ log[k].after[e2] = 1

\* C9 as stated: a checker call returns true if and only if some flag was 0
\* before the call and is 1 after it.
C9_ResultIffNewlySet ==
    \A k \in DOMAIN log :
        log[k].result <=> (\E e \in ChkPanels : log[k].before[e] = 0 /\ log[k].after[e] = 1)

\* C9 amended: a checker call returns true if and only if it found a
\* violation (an element over the threshold, a center with a source in its
\* scaled disk, a source with a center in its danger zone), whether or not
\* the flag of that element was set already; so a call that newly sets a flag
\* returns true, and a call that returns false changes no flag.
C9_ResultIffViolationFound ==
    \A k \in DOMAIN log :
        /\ log[k].result <=> (\E e \in ChkPanels : ChkViolates(e))
        /\ (\E e \in ChkPanels : log[k].before[e] = 0 /\ log[k].after[e] = 1) => log[k].result
        /\ ~log[k].result => log[k].after = log[k].before

\* a threshold check on flags that already cover every element over the
\* threshold returns true and changes nothing
C9_Witness ==
    \E k \in DOMAIN log :
        /\ log[k].op = "check_element_prop_threshold"
        /\ \E e \in ChkPanels : chk.element_property[e] > chk.threshold
        /\ \A e \in ChkPanels : chk.element_property[e] > chk.threshold => log[k].before[e] = 1
        /\ log[k].after = log[k].before
        /\ log[k].result

\* C10: every call of the Condition-1 checker leaves, for every element e,
\* flags[e] = 1 if e owns a center c with a source s, among the sources in
\* the leaf boxes of c's area query, at distance(c, s) <= (1 - tolerance) *
\* radius(c), and flags[e] as it was before otherwise; scanning all sources
\* instead of the candidates gives the same flags.
C10_Cond1BruteForce ==
    \A k \in DOMAIN log :
        log[k].op = "check_expansion_disks_undisturbed_by_sources" =>
            \A e \in ChkPanels :
                /\ log[k].after[e] = (IF ChkDisturbed(e) THEN 1 ELSE log[k].before[e])
                /\ ChkDisturbed(e) <=>
                       \E c \in ChkParticles : \E s \in ChkParticles :
                           ChkOwner(chk.ctr_starts, c) = e /\ ChkCompare1(c, s) <= 0

\* an element flagged only because a source of the other element lies
\* exactly at distance (1 - tolerance) * radius from one of its centers
C10_Witness ==
    \E k \in DOMAIN log : \E e \in ChkPanels : \E c \in ChkParticles : \E s \in ChkParticles :
        /\ log[k].op = "check_expansion_disks_undisturbed_by_sources"
        /\ ChkOwner(chk.ctr_starts, c) = e
        /\ ChkOwner(chk.src_starts, s) # e
        /\ ChkCompare1(c, s) = 0
        /\ chk.ctr[c] # chk.src[s]
        /\ \A c2 \in ChkParticles : \A s2 \in ChkParticles :
             ChkOwner(chk.ctr_starts, c2) = e => ChkCompare1(c2, s2) >= 0
        /\ log[k].before[e] = 0
        /\ log[k].after[e] = 1
        /\ log[k].after[ChkOwner(chk.src_starts, s)] = 0

\* center c lies in a leaf box that overlaps the bounding square of the
\* danger zone of source s
ChkCandidate2(s, c) ==
    \A k \in 1 .. 2 :
        2 * Abs(chk.src[s][k] - chk.ctr[c][k]) <= 2 * chk.radii[ChkOwner(chk.src_starts, s)] + 1

\* distance(s, c) compared with the radius of the element that owns s: -1, 0 or 1
ChkCompare2(s, c) ==
    LET lhs == (chk.ctr[c][1] - chk.src[s][1]) * (chk.ctr[c][1] - chk.src[s][1]) + (chk.ctr[c][2] - chk.src[s][2]) * (chk.ctr[c][2] - chk.src[s][2])
        r == chk.radii[ChkOwner(chk.src_starts, s)]
    IN  IF lhs < r * r THEN -1 ELSE IF lhs = r * r THEN 0 ELSE 1

\* C11: every call of the Condition-2 checker leaves, for every element e,
\* flags[e] = 1 if e owns a source s with a center c, among the centers in
\* the leaf boxes of s's area query, at distance(s, c) <= radius[e], and
\* flags[e] as it was before otherwise; scanning all centers instead of the
\* candidates gives the same flags.
C11_Cond2BruteForce ==
    \A k \in DOMAIN log :
        log[k].op = "check_sufficient_source_quadrature_resolution" =>
            \A e \in ChkPanels :
                LET hit == \E s \in ChkParticles : \E c \in ChkParticles :
                               /\ ChkOwner(chk.src_starts, s) = e
                               /\ ChkCandidate2(s, c)
                               /\ ChkCompare2(s, c) <= 0
                IN  /\ log[k].after[e] = (IF hit THEN 1 ELSE log[k].before[e])
                    /\ hit <=> ChkUnderResolved(e)

\* an element flagged only because a center lies exactly on the danger zone
\* of one of its sources, the other element having a different radius and
\* staying unflagged
C11_Witness ==
    \E k \in DOMAIN log : \E e \in ChkPanels : \E s \in ChkParticles : \E c \in ChkParticles :
        /\ log[k].op = "check_sufficient_source_quadrature_resolution"
        /\ ChkOwner(chk.src_starts, s) = e
        /\ ChkCompare2(s, c) = 0
        /\ chk.src[s] # chk.ctr[c]
        /\ \A s2 \in ChkParticles : \A c2 \in ChkParticles :
             ChkOwner(chk.src_starts, s2) = e => ChkCompare2(s2, c2) >= 0
        /\ log[k].before[e] = 0
        /\ log[k].after[e] = 1
        /\ \E e2 \in ChkPanels : e2 # e /\ chk.radii[e2] # chk.radii[e] /\ log[k].after[e2] = 0

\* ------------------------------------------- checkers of one iteration
\* The three checkers of a stage-1 iteration (threshold on the quadrature
\* resolution, threshold on the curvature, Condition 1) called once each on
\* the same refine_flags array, in any order.

PermCriteria == {"kernel length scale", "curvature", "disturbed expansions"}

PermProps == {1, 2}

PermInputs ==
    { [ mode |-> "perm",
        quad_resolution |-> q, kernel_length_scale |-> 1,
        scaled_max_curv |-> k, scaled_max_curvature_threshold |-> 1,
        src |-> [i \in ChkParticles |-> IF i = 0 THEN <<0, 0>> ELSE sp],
        ctr |-> [i \in ChkParticles |-> IF i = 0 THEN cp ELSE <<1, 1>>],
        src_starts |-> ChkIdentityTable, ctr_starts |-> cs,
        radii |-> [i \in ChkParticles |-> r], tol |-> <<1, 2>> ] :
        q \in [ChkPanels -> PermProps], k \in [ChkPanels -> PermProps],
        sp \in ChkPoints, cp \in ChkPoints, cs \in ChkStartTables, r \in ChkCenterRadii }

InitPerm ==
    /\ stage = 0
    /\ chk \in PermInputs
    /\ refine_flags \in [ChkPanels -> {0, 1}]
    /\ log = <<>>
    /\ pc = "perm"
    /\ maxiter = 0
    /\ kernel_length_scale = <<>>
    /\ scaled_max_curvature_threshold = <<>>
    /\ expansion_disturbance_tolerance = DefaultTolerance
    /\ force_stage2_uniform_refinement_rounds = 0
    /\ density_discr = NoDiscr
    /\ stage1_density_discr = NoDiscr
    /\ stage2_density_discr = NoDiscr
    /\ connections = <<>>
    /\ violated_criteria = <<>>
    /\ iter_violated_criteria = <<>>
    /\ niter = 0
    /\ round = 0
    /\ warnings = <<>>
    /\ retval = None
    /\ refine_flags_updated = 0
    /\ work = <<>>

\* the checker of criterion c applied to flags
PermCheck(c, flags) ==
    IF c = "kernel length scale"
    THEN check_element_prop_threshold(chk.quad_resolution, chk.kernel_length_scale, flags)
    ELSE IF c = "curvature"
    THEN check_element_prop_threshold(chk.scaled_max_curv, chk.scaled_max_curvature_threshold, flags)
    ELSE check_expansion_disks_undisturbed_by_sources(ChkTree, chk.radii, chk.tol, flags)

PermCalled(c) == \E k \in DOMAIN log : log[k].criterion = c

PermCall(c) ==
    /\ pc = "perm"
    /\ ~PermCalled(c)
    /\ LET r == PermCheck(c, refine_flags)
       IN  /\ refine_flags' = r.refine_flags
           /\ log' = Append(log, [ criterion |-> c, before |-> refine_flags, after |-> r.refine_flags, result |-> r.result ])
    /\ ChkUnchanged

PermCallKernelLengthScale == PermCall("kernel length scale")

PermCallCurvature == PermCall("curvature")

PermCallDisturbedExpansions == PermCall("disturbed expansions")

NextPerm ==
    \/ PermCallKernelLengthScale
    \/ PermCallCurvature
    \/ PermCallDisturbedExpansions

SpecPerm == InitPerm /\ [][NextPerm]_vars

\* the orders in which the three checkers can be called
PermOrders == { o \in [1 .. 3 -> PermCriteria] : \A c \in PermCriteria : \E i \in 1 .. 3 : o[i] = c }

\* C12: no checker call changes a flag from 1 to 0, each call starts from the
\* flags the previous one left, and once the three checkers have run the
\* flags are those of the initial vector OR-ed with the three criteria,
\* which is also what every one of the six orders of the three checkers
\* computes from the initial vector.
C12_MonotoneAndOrderIndependent ==
    /\ \A k \in DOMAIN log :
         /\ \A e \in ChkPanels : log[k].before[e] = 1 => log[k].after[e] = 1
         /\ k > 1 => log[k].before = log[k - 1].after
    /\ Len(log) = 3 =>
         /\ refine_flags = log[3].after
         /\ \A e \in ChkPanels :
              refine_flags[e] = (IF \/ log[1].before[e] = 1
                                    \/ chk.quad_resolution[e] > chk.kernel_length_scale
                                    \/ chk.scaled_max_curv[e] > chk.scaled_max_curvature_threshold
                                    \/ ChkDisturbed(e)
                                 THEN 1 ELSE 0)
         /\ \A o \in PermOrders :
              PermCheck(o[3], PermCheck(o[2], PermCheck(o[1], log[1].before).refine_flags).refine_flags).refine_flags = refine_flags

\* Condition 1 first and the kernel-length-scale check last, on flags with
\* one entry set beforehand that no checker would set, the other entry set
\* by the first call only
C12_Witness ==
    /\ Len(log) = 3
    /\ log[1].criterion = "disturbed expansions"
    /\ log[3].criterion = "kernel length scale"
    /\ \E e \in ChkPanels : \E f \in ChkPanels :
         /\ log[1].before[e] = 1
         /\ chk.quad_resolution[e] <= chk.kernel_length_scale
         /\ chk.scaled_max_curv[e] <= chk.scaled_max_curvature_threshold
         /\ ~ChkDisturbed(e)
         /\ log[1].before[f] = 0
         /\ log[1].after[f] = 1
         /\ chk.quad_resolution[f] <= chk.kernel_length_scale
         /\ chk.scaled_max_curv[f] <= chk.scaled_max_curvature_threshold
         /\ refine_flags[f] = 1
         /\ refine_flags[e] = 1

\* ------------------------------------------------ kernels, work item by work item
\* One call of a check_* method with its kernel unfolded: the call launches
\* one work item per element (threshold kernel), per center (Condition 1) or
\* per source (Condition 2); a work item evaluates its test and then performs
\* its stores one at a time; the work items interleave freely; the call
\* returns once all of them are done (cl.wait_for_events).

KnlInputs ==
    { c \in ChkInputs :
        \/ c.mode = "threshold"
        \/ c.mode = "cond1" /\ c.src[1] = <<1, 0>> /\ c.tol = <<1, 2>>
        \/ c.mode = "cond2" /\ c.src[1] = <<1, 0>> }

\* the index range of the kernel
KnlItems ==
    IF chk.mode = "threshold" THEN DOMAIN chk.element_property
    ELSE IF chk.mode = "cond1" THEN Range0(ChkTree.nqbxcenters)
    ELSE Range0(ChkTree.nqbxsources)

\* leaves of the area query in which leaf_found_op reaches its is_close branch
Cond1HitLeaves(tree, center_danger_zone_radii, tol, icenter) ==
    LET ball_center == tree.sources[INDEX_FOR_CENTER_PARTICLE(tree, icenter)]
        ball_radius == <<(tol[2] - tol[1]) * center_danger_zone_radii[icenter], tol[2]>>
    IN  { leaf \in AreaQueryLeaves(ball_center, ball_radius) :
            Cond1LeafFound(tree, center_danger_zone_radii, tol, icenter, tree.box_to_qbx_source_starts[leaf], tree.box_to_qbx_source_starts[leaf + 1]) }

Cond2HitLeaves(tree, radii_by_panel, i) ==
    LET my_panel == Cond2MyPanel(tree, i)
        ball_center == tree.sources[INDEX_FOR_SOURCE_PARTICLE(tree, i)]
        ball_radius == <<radii_by_panel[my_panel], 1>>
    IN  { leaf \in AreaQueryLeaves(ball_center, ball_radius) :
            Cond2LeafFound(tree, radii_by_panel, my_panel, i, tree.box_to_qbx_center_starts[leaf], tree.box_to_qbx_center_starts[leaf + 1]) }

\* how many times work item i reaches the branch that stores
KnlHits(i) ==
    IF chk.mode = "threshold" THEN (IF chk.element_property[i] > chk.threshold THEN 1 ELSE 0)
    ELSE IF chk.mode = "cond1" THEN Cardinality(Cond1HitLeaves(ChkTree, chk.radii, chk.tol, i))
    ELSE Cardinality(Cond2HitLeaves(ChkTree, chk.radii, i))

\* the flags entry work item i stores to
KnlTarget(i) ==
    IF chk.mode = "threshold" THEN i
    ELSE IF chk.mode = "cond1" THEN Cond1CenterPanel(ChkTree, i)
    ELSE Cond2MyPanel(ChkTree, i)

\* variant: the store flips the entry it finds
KnlFlagStoreFlip(old) == 1 - old

\* refine_flags[ielement] = 1 / panel_refine_flags[panel] = 1
KnlFlagStore(old) == 1

\* variant: the scalar counts the stores
KnlUpdatedStoreCount(old) == old + 1

\* refine_flags_updated = 1 / *found_panel_to_refine = 1
KnlUpdatedStore(old) == 1

KnlOp ==
    IF chk.mode = "threshold" THEN "check_element_prop_threshold"
    ELSE IF chk.mode = "cond1" THEN "check_expansion_disks_undisturbed_by_sources"
    ELSE "check_sufficient_source_quadrature_resolution"

InitKnl ==
    /\ stage = 0
    /\ chk \in KnlInputs
    /\ refine_flags \in [ChkPanels -> {0, 1}]
    /\ log = <<>>
    /\ pc = "knl_idle"
    /\ maxiter = 0
    /\ kernel_length_scale = <<>>
    /\ scaled_max_curvature_threshold = <<>>
    /\ expansion_disturbance_tolerance = DefaultTolerance
    /\ force_stage2_uniform_refinement_rounds = 0
    /\ density_discr = NoDiscr
    /\ stage1_density_discr = NoDiscr
    /\ stage2_density_discr = NoDiscr
    /\ connections = <<>>
    /\ violated_criteria = <<>>
    /\ iter_violated_criteria = <<>>
    /\ niter = 0
    /\ round = 0
    /\ warnings = <<>>
    /\ retval = None
    /\ refine_flags_updated = 0
    /\ work = <<>>

KnlUnchanged == UNCHANGED <<cfgvars, round, stage1_density_discr, stage2_density_discr, connections, violated_criteria, iter_violated_criteria, niter, warnings, retval>>

\* the call: a zeroed scalar output, one work item per index
KnlLaunch ==
    /\ pc = "knl_idle"
    /\ Len(log) < MaxCalls
    /\ refine_flags_updated' = 0
    /\ work' = [ before |-> refine_flags,
                 items |-> [i \in KnlItems |-> [pc |-> "start", hits |-> 0]] ]
    /\ pc' = "knl_running"
    /\ UNCHANGED <<refine_flags, log>>
    /\ KnlUnchanged

\* a work item evaluates its test; it reads the inputs only
KnlEval ==
    /\ pc = "knl_running"
    /\ \E i \in DOMAIN work.items :
         /\ work.items[i].pc = "start"
         /\ LET h == KnlHits(i)
            IN  work' = [work EXCEPT !.items[i] = [pc |-> IF h > 0 THEN "write_flag" ELSE "done", hits |-> h]]
    /\ UNCHANGED <<refine_flags, refine_flags_updated, log, pc>>
    /\ KnlUnchanged

\* a work item stores to its flags entry
KnlWriteFlag ==
    /\ pc = "knl_running"
    /\ \E i \in DOMAIN work.items :
         /\ work.items[i].pc = "write_flag"
         /\ refine_flags' = [refine_flags EXCEPT ![KnlTarget(i)] = KnlFlagStore(refine_flags[KnlTarget(i)])]
         /\ work' = [work EXCEPT !.items[i].pc = "write_updated"]
    /\ UNCHANGED <<refine_flags_updated, log, pc>>
    /\ KnlUnchanged

\* a work item stores to the scalar output and goes on with its next leaf
KnlWriteUpdated ==
    /\ pc = "knl_running"
    /\ \E i \in DOMAIN work.items :
         /\ work.items[i].pc = "write_updated"
         /\ refine_flags_updated' = KnlUpdatedStore(refine_flags_updated)
         /\ work' = [work EXCEPT !.items[i] = [pc |-> IF work.items[i].hits > 1 THEN "write_flag" ELSE "done", hits |-> work.items[i].hits - 1]]
    /\ UNCHANGED <<refine_flags, log, pc>>
    /\ KnlUnchanged

\* cl.wait_for_events; return <scalar> == 1
KnlReturn ==
    /\ pc = "knl_running"
    /\ \A i \in DOMAIN work.items : work.items[i].pc = "done"
    /\ log' = Append(log, [ op |-> KnlOp, before |-> work.before, after |-> refine_flags, result |-> (refine_flags_updated = 1) ])
    /\ work' = <<>>
    /\ pc' = "knl_idle"
    /\ UNCHANGED <<refine_flags, refine_flags_updated>>
    /\ KnlUnchanged

NextKnl ==
    \/ KnlLaunch
    \/ KnlEval
    \/ KnlWriteFlag
    \/ KnlWriteUpdated
    \/ KnlReturn

SpecKnl == InitKnl /\ [][NextKnl]_vars

\* C13: whatever the interleaving of its work items and whichever call it
\* is, a threshold check leaves flags that are a function of the property
\* array, the threshold and the flags it started from (entry e is 1 if
\* P[e] > T and unchanged otherwise), and a further run on the flags a run
\* produced leaves them as they are.
C13_ThresholdPureIdempotent ==
    \A k \in DOMAIN log :
        log[k].op = "check_element_prop_threshold" =>
            /\ log[k].after = [e \in DOMAIN log[k].before |-> IF chk.element_property[e] > chk.threshold THEN 1 ELSE log[k].before[e]]
            /\ k > 1 => /\ log[k].before = log[k - 1].after
                        /\ log[k].after = log[k].before

\* a first run that set a flag and a second run on its output
C13_Witness ==
    /\ Len(log) >= 2
    /\ log[1].op = "check_element_prop_threshold"
    /\ log[1].after # log[1].before
    /\ log[2].before = log[1].after
    /\ log[2].after = log[1].after

\* C14: while a kernel runs, in every interleaving of its work items, a
\* flag that was 1 at the launch or has been stored to by a work item is 1,
\* the scalar is 0 or 1 and is 1 once a work item has stored to it, and when
\* the call returns the flags are the initial flags OR-ed with the criterion
\* and the boolean tells whether some element violates it, the same for
\* every interleaving.
C14_InterleavingsAgree ==
    /\ refine_flags_updated \in {0, 1}
    /\ pc = "knl_running" =>
         /\ \A e \in ChkPanels : work.before[e] = 1 => refine_flags[e] = 1
         /\ \A e \in ChkPanels : refine_flags[e] \in {0, 1}
         /\ \A i \in DOMAIN work.items :
              /\ work.items[i].pc = "write_updated" => refine_flags[KnlTarget(i)] = 1
              /\ (work.items[i].pc = "done" /\ KnlHits(i) > 0) =>
                     /\ refine_flags[KnlTarget(i)] = 1
                     /\ refine_flags_updated = 1
    /\ \A k \in DOMAIN log :
         /\ \A e \in ChkPanels : log[k].after[e] = (IF ChkViolates(e) THEN 1 ELSE log[k].before[e])
         /\ log[k].result <=> (\E e \in ChkPanels : ChkViolates(e))

\* two work items about to store to the same flags entry, which is still 0
C14_Witness ==
    /\ pc = "knl_running"
    /\ \E i \in DOMAIN work.items : \E j \in DOMAIN work.items :
         /\ i # j
         /\ work.items[i].pc = "write_flag"
         /\ work.items[j].pc = "write_flag"
         /\ KnlTarget(i) = KnlTarget(j)
         /\ refine_flags[KnlTarget(i)] = 0

\* ------------------------------------- properties of the loops, continued

\* positions in the log of the calls op(arg) made by iteration i
IterCalls(i, op, arg) == {k \in DOMAIN log : log[k].niter = i /\ log[k].op = op /\ log[k].arg = arg}

\* iteration i of stage 1 has gone through all its checks
S1IterChecked(i) ==
    /\ IterEvaluated(i)
    /\ i < niter \/ pc \notin {"s1_kls", "s1_curv", "s1_tree"}

\* C15: in every stage-1 iteration that has gone through its checks, each
\* configured threshold check was called once, kernel length scale before
\* curvature, and the tree was built and Condition 1 called, right after
\* each other and after the threshold checks, if and only if no threshold
\* check of that iteration returned true; otherwise neither was called.
C15_Stage1CheckOrder ==
    stage = 1 =>
        \A i \in 1 .. niter :
            S1IterChecked(i) =>
                LET kls == IterCalls(i, "check_element_prop_threshold", "kernel length scale")
                    cur == IterCalls(i, "check_element_prop_threshold", "curvature")
                    tr == IterCalls(i, "build_tree", "")
                    c1 == IterCalls(i, "check_expansion_disks_undisturbed_by_sources", "disturbed expansions")
                    threshold_violated == \E k \in kls \cup cur : log[k].result
                IN  /\ Cardinality(kls) = (IF kernel_length_scale # <<>> THEN 1 ELSE 0)
                    /\ Cardinality(cur) = (IF scaled_max_curvature_threshold # <<>> THEN 1 ELSE 0)
                    /\ \A a \in kls : \A b \in cur : a < b
                    /\ Cardinality(tr) = (IF threshold_violated THEN 0 ELSE 1)
                    /\ Cardinality(c1) = (IF threshold_violated THEN 0 ELSE 1)
                    /\ \A t \in tr : /\ t + 1 \in c1
                                     /\ \A a \in kls \cup cur : a < t

\* an iteration with a threshold violation and no tree, followed by one
\* without threshold violations that built the tree and ran Condition 1
C15_Witness ==
    /\ stage = 1
    /\ S1IterChecked(2)
    /\ \E k \in IterCalls(1, "check_element_prop_threshold", "kernel length scale") : log[k].result
    /\ IterCalls(1, "build_tree", "") = {}
    /\ \E k \in IterCalls(2, "check_element_prop_threshold", "kernel length scale") : ~log[k].result
    /\ IterCalls(2, "build_tree", "") # {}
    /\ IterCalls(2, "check_expansion_disks_undisturbed_by_sources", "disturbed expansions") # {}

\* C16: once stage 1 has left its loop without a warning, its last
\* iteration called every configured threshold check and, after a tree
\* build, Condition 1, all on the discretization that is current (and
\* returned), none of them returned true, and that discretization violates
\* no configured criterion nor Condition 1.
C16_ConvergedMeansAllChecked ==
    (stage = 1 /\ pc \in {"s1_return", "done"} /\ ~Warned) =>
        LET kls == IterCalls(niter, "check_element_prop_threshold", "kernel length scale")
            cur == IterCalls(niter, "check_element_prop_threshold", "curvature")
            tr == IterCalls(niter, "build_tree", "")
            c1 == IterCalls(niter, "check_expansion_disks_undisturbed_by_sources", "disturbed expansions")
        IN  /\ IterEvaluated(niter)
            /\ Cardinality(kls) = (IF kernel_length_scale # <<>> THEN 1 ELSE 0)
            /\ Cardinality(cur) = (IF scaled_max_curvature_threshold # <<>> THEN 1 ELSE 0)
            /\ Cardinality(tr) = 1
            /\ Cardinality(c1) = 1
            /\ \A k \in kls \cup cur \cup tr \cup c1 :
                 /\ log[k].discr = stage1_density_discr.id
                 /\ ~log[k].result
            /\ \A k \in DOMAIN log : log[k].niter = niter => log[k].op # "refine"
            /\ ~ViolatesConfigured(stage1_density_discr)
            /\ pc = "done" => retval.discr = stage1_density_discr

\* a run that skipped Condition 1 in its first iteration, refined, and
\* converged in its second iteration with both thresholds configured
C16_Witness ==
    /\ stage = 1
    /\ pc = "done"
    /\ ~Warned
    /\ niter = 2
    /\ kernel_length_scale # <<>>
    /\ scaled_max_curvature_threshold # <<>>
    /\ IterCalls(1, "build_tree", "") = {}
    /\ IterCalls(2, "check_expansion_disks_undisturbed_by_sources", "disturbed expansions") # {}
    /\ retval.discr.id = connections[1].to_discr

\* the discretization that was current when log entry k was made
DiscrIdAt(k) ==
    LET n == Cardinality({j \in 1 .. (k - 1) : log[j].op = "refine"})
    IN  IF n = 0 THEN InputDiscr.id ELSE connections[n].to_discr

\* C17: right after an iteration has allocated its flags they are all 0 and
\* indexed by the elements of the current discretization, whatever earlier
\* iterations flagged; they keep that length through the checks; the
\* allocation is made for the discretization current at that time; and at
\* every call of wrangler.refine, in the loops and in the uniform rounds,
\* the flags are indexed by the elements of the discretization refined,
\* which is the current one.
C17_FreshFlagsOfCurrentLength ==
    /\ pc \in {"s1_kls", "s2_check"} =>
         /\ DOMAIN refine_flags = Range0(CurrentDiscr.nelements)
         /\ \A e \in DOMAIN refine_flags : refine_flags[e] = 0
    /\ pc \in {"s1_curv", "s1_tree", "s1_refine", "s2_refine"} =>
         DOMAIN refine_flags = Range0(CurrentDiscr.nelements)
    /\ \A k \in DOMAIN log :
         /\ log[k].op = "make_empty_refine_flags" => log[k].discr = DiscrIdAt(k)
         /\ log[k].op = "refine" =>
              /\ DOMAIN log[k].arg = Range0(log[k].nelements)
              /\ log[k].discr = DiscrIdAt(k)

\* the second refinement of a loop, on two elements, leaves alone the
\* element the first iteration had flagged
C17_Witness ==
    \E k \in LoopRefines :
        /\ log[k].niter = 2
        /\ log[k].nelements = 2
        /\ log[k].arg[0] = 0
        /\ log[k].arg[1] = 1
        /\ \E j \in LoopRefines : log[j].niter = 1 /\ log[j].arg[0] = 1

\* the calls a criterion loop makes (not those of the uniform rounds)
LoopCalls == {k \in DOMAIN log : log[k].pc # "s2_uniform"}

\* C18: the calls of a run are made iteration after iteration; every call
\* of iteration i + 1 comes after the refinement of iteration i and is made
\* on the discretization that refinement produced; within an iteration the
\* allocation and the checks come before the refinement, and an iteration
\* refines exactly when one of its checks had returned true; while an
\* iteration is still checking it has not refined.
C18_StrictlySequential ==
    /\ \A j \in DOMAIN log : \A k \in DOMAIN log : j < k => log[j].niter <= log[k].niter
    /\ \A k \in LoopCalls :
         LET i == log[k].niter
         IN  /\ log[k].discr = (IF i = 1 THEN InputDiscr.id ELSE connections[i - 1].to_discr)
             /\ i > 1 => \E r \in LoopRefines : log[r].niter = i - 1 /\ r < k
             /\ log[k].op # "refine" => \A r \in LoopRefines : log[r].niter = i => k < r
             /\ log[k].op = "refine" => IterViolated(i)
    /\ \A i \in 1 .. (niter - 1) :
         (IterEvaluated(i) /\ IterViolated(i)) => Cardinality({r \in LoopRefines : log[r].niter = i}) = 1
    /\ pc \in {"s1_kls", "s1_curv", "s1_tree", "s1_refine", "s2_check", "s2_refine"} =>
         \A r \in LoopRefines : log[r].niter < niter

\* a second iteration that checked and refined the discretization the first
\* refinement produced
C18_Witness ==
    \E r \in LoopRefines : \E k \in LoopCalls :
        /\ log[r].niter = 2
        /\ log[k].niter = 2
        /\ log[k].op \in CheckOps
        /\ log[k].result
        /\ k < r
        /\ log[k].discr = connections[1].to_discr
        /\ log[r].discr = connections[1].to_discr
        /\ connections[1].to_discr # InputDiscr.id

\* the run has left its criterion loop
LoopExited == pc \in {"s1_return", "s2_uniform", "done"}

\* C19 as stated: a run that has left its criterion loop has called a
\* checker on the input discretization.
C19_AlwaysEvaluatesOnce ==
    LoopExited => \E k \in DOMAIN log : log[k].op \in CheckOps /\ log[k].discr = InputDiscr.id

\* C19 amended: every run enters the loop body once, the list of violated
\* criteria being non-empty at the start; with maxiter >= 1 that first
\* iteration allocates flags and calls a checker on the input
\* discretization; with maxiter = 0 it stops on the cap before any
\* evaluation, warns, and leaves the loop with the input discretization.
C19_EvaluatesOnceUnlessCapZero ==
    /\ (pc \in {"s1_while", "s2_while"} /\ niter = 0) => iter_violated_criteria # <<>>
    /\ LoopExited =>
         /\ niter >= 1
         /\ maxiter >= 1 =>
              /\ IterEvaluated(1)
              /\ \E k \in DOMAIN log : log[k].op \in CheckOps /\ log[k].niter = 1 /\ log[k].discr = InputDiscr.id
         /\ maxiter = 0 =>
              /\ LoopCalls = {}
              /\ Warned
              /\ connections = <<>> => CurrentDiscr = InputDiscr

\* a run on a mesh that needs no refinement: one evaluation, then the return
C19_Witness ==
    /\ pc = "done"
    /\ maxiter >= 1
    /\ niter = 1
    /\ ~Warned
    /\ connections = <<>>
    /\ \E k \in DOMAIN log : log[k].op \in CheckOps /\ log[k].discr = InputDiscr.id
    /\ retval.discr = InputDiscr

\* C20: stage 2 calls no threshold check and no Condition-1 check; every
\* iteration that evaluates builds the quadrature discretization, the tree
\* and the flags, in that order and for the discretization then current, the
\* tree always with the same stage-1 discretization, and then calls the
\* Condition-2 checker once; when the loop has exited the tree builds are as
\* many as the Condition-2 calls, which are the loop's refinements plus one
\* if the loop converged.
C20_Stage2Iteration ==
    stage = 2 =>
        /\ \A k \in DOMAIN log :
             log[k].op \notin {"check_element_prop_threshold", "check_expansion_disks_undisturbed_by_sources"}
        /\ \A i \in 1 .. niter :
             IterEvaluated(i) =>
                 LET q == IterCalls(i, "make_quad_stage2_discr", "")
                     t == IterCalls(i, "build_tree", stage1_density_discr.id)
                     f == IterCalls(i, "make_empty_refine_flags", "")
                     c == IterCalls(i, "check_sufficient_source_quadrature_resolution", "insufficient quadrature resolution")
                 IN  /\ Cardinality(q) = 1 /\ Cardinality(t) = 1 /\ Cardinality(f) = 1
                     /\ \A k \in q : k + 1 \in t /\ k + 2 \in f
                     /\ \A k \in q \cup t \cup f \cup c : log[k].discr = DiscrIdAt(k)
                     /\ (i < niter \/ pc # "s2_check") => (Cardinality(c) = 1 /\ \A k \in f : k + 1 \in c)
        /\ \A k \in DOMAIN log : log[k].op = "build_tree" => log[k].arg = stage1_density_discr.id
        /\ LoopExited =>
             LET ntrees == Cardinality({k \in DOMAIN log : log[k].op = "build_tree"})
                 nchecks == Cardinality({k \in DOMAIN log : log[k].op \in CheckOps})
             IN  /\ ntrees = nchecks
                 /\ nchecks = Cardinality(LoopRefines) + (IF Warned THEN 0 ELSE 1)

\* a stage-2 run that refined once and converged: two trees, two checks
C20_Witness ==
    /\ stage = 2
    /\ pc = "done"
    /\ ~Warned
    /\ Cardinality(LoopRefines) = 1
    /\ Cardinality({k \in DOMAIN log : log[k].op = "build_tree"}) = 2
    /\ \E k \in IterCalls(2, "build_tree", stage1_density_discr.id) : log[k].discr = connections[1].to_discr

\* ------------------------------------------------------------ termination
\* The entry points are sequential code: once a call has returned, the next
\* statement runs.  That is weak fairness of the next-state relation; every
\* step moves the program counter or the round counter.
position == <<pc, round>>

SpecLive == Init /\ [][Next]_vars /\ WF_position(Next)

LoopPcs == {"s1_while", "s1_kls", "s1_curv", "s1_tree", "s1_refine", "s2_while", "s2_check", "s2_refine"}

\* The refiner is asked for a mesh larger than MaxElems elements: the one
\* external call that does not return here.
MeshFull ==
    /\ pc \in {"s1_refine", "s2_refine"}
    /\ iter_violated_criteria # <<>>
    /\ CurrentDiscr.nelements + NumFlagged(refine_flags) > MaxElems

\* CONVERGED: the while test fails after an iteration that ran its checks and
\* found no violation; nothing is counted and nothing is warned.
ExitConverged ==
    /\ pc \in {"s1_while", "s2_while"}
    /\ iter_violated_criteria = <<>>
    /\ niter >= 1 /\ niter <= maxiter
    /\ IterEvaluated(niter) /\ ~IterViolated(niter)
    /\ UNCHANGED <<niter, warnings>>

\* MAX_ITER_EXCEEDED: the counter steps past maxiter and the warning is issued.
ExitMaxIter ==
    /\ pc \in {"s1_while", "s2_while"}
    /\ iter_violated_criteria # <<>>
    /\ niter' = niter + 1
    /\ niter' > maxiter
    /\ Len(warnings') = Len(warnings) + 1

\* C21: while the refiner returns, every run of either control loop leaves
\* its loop, and the step that leaves it is exactly one of two: the while
\* test failing after an iteration without a violation (CONVERGED), or the
\* iteration counter exceeding maxiter (MAX_ITER_EXCEEDED).  The loop body is
\* never running with the counter above maxiter.
C21_TerminatesByConvergenceOrCap ==
    /\ <>(LoopExited \/ (MeshFull /\ niter <= maxiter))
    /\ [][(pc \in LoopPcs /\ pc' \notin LoopPcs) => (ExitConverged # ExitMaxIter)]_position

\* A run that refined in every iteration the cap allows, two of them, left
\* the loop on the cap and returned.
C21_Witness ==
    /\ pc = "done"
    /\ maxiter = MaxIterBound
    /\ niter = maxiter + 1
    /\ Len(warnings) = 1
    /\ Len(violated_criteria) = maxiter

\* ------------------------------------------------- structural misconfiguration
\* _visualize_refinement and RefinerWrangler.refine called directly, with any
\* stage number and any flags vector.  chk holds the arguments, log the
\* effects of the call in order, retval how it ended.

CfgStageNumbers == 0 .. 3
CfgElements == 1 .. 2
CfgFlagLengths == 0 .. 3
CfgFlags == UNION { [1 .. n -> {0, 1}] : n \in CfgFlagLengths }

\* debug_build is Python's __debug__: assert statements run only when it is
\* true (they are compiled away under -O).
CfgInputs ==
    { [ mode |-> "visualize", stage_nr |-> s, nelements |-> n, flags |-> f, debug_build |-> d ] :
        s \in CfgStageNumbers, n \in CfgElements, f \in CfgFlags, d \in BOOLEAN }
    \cup
    { [ mode |-> "refine", stage_nr |-> 1, nelements |-> n, flags |-> f, debug_build |-> TRUE ] :
        n \in CfgElements, f \in CfgFlags }

InitCfg ==
    /\ chk \in CfgInputs
    /\ pc = (IF chk.mode = "visualize" THEN "vis_entry" ELSE "refine_entry")
    /\ stage = chk.stage_nr
    /\ maxiter = 0
    /\ kernel_length_scale = <<>>
    /\ scaled_max_curvature_threshold = <<>>
    /\ expansion_disturbance_tolerance = DefaultTolerance
    /\ force_stage2_uniform_refinement_rounds = 0
    /\ density_discr = NoDiscr
    /\ stage1_density_discr = NoDiscr
    /\ stage2_density_discr = NoDiscr
    /\ connections = <<>>
    /\ violated_criteria = <<>>
    /\ iter_violated_criteria = <<>>
    /\ niter = 0
    /\ round = 0
    /\ refine_flags = chk.flags
    /\ warnings = <<>>
    /\ retval = None
    /\ refine_flags_updated = 0
    /\ work = <<>>
    /\ log = <<>>

CfgUnchanged == UNCHANGED <<cfgvars, knlvars, round, stage1_density_discr, stage2_density_discr, connections, violated_criteria, iter_violated_criteria, niter, refine_flags, warnings>>

Raise(exc) == [ raised |-> exc ]

Returned == [ raised |-> "" ]

\* if stage_nr not in (1, 2): raise ValueError("unexpected stage number")
VisCheckStageNr ==
    /\ pc = "vis_entry"
    /\ IF chk.stage_nr \notin {1, 2}
       THEN pc' = "cfg_done" /\ retval' = Raise("ValueError")
       ELSE pc' = "vis_get" /\ UNCHANGED retval
    /\ UNCHANGED log
    /\ CfgUnchanged

\* flags = flags.get(); logger.info(..., np.sum(flags), discr.mesh.nelements, stage_nr)
VisReadFlags ==
    /\ pc = "vis_get"
    /\ log' = log \o << "flags.get", "logger.info" >>
    /\ pc' = "vis_make_visualizer"
    /\ UNCHANGED retval
    /\ CfgUnchanged

\* vis = make_visualizer(queue, discr, 3)
VisMakeVisualizer ==
    /\ pc = "vis_make_visualizer"
    /\ log' = Append(log, "make_visualizer")
    /\ pc' = "vis_assert"
    /\ UNCHANGED retval
    /\ CfgUnchanged

\* assert len(flags) == discr.mesh.nelements
VisAssertLength ==
    /\ pc = "vis_assert"
    /\ IF chk.debug_build /\ Len(chk.flags) # chk.nelements
       THEN pc' = "cfg_done" /\ retval' = Raise("AssertionError")
       ELSE pc' = "vis_mark" /\ UNCHANGED retval
    /\ UNCHANGED log
    /\ CfgUnchanged

\* grp.view(nodes_flags)[flags[base:nelements+base]] = 1 for the one group:
\* the slice of a vector that is too short is too short a mask for the view
\* (IndexError); the slice of one that is too long has the right length.
VisMarkNodes ==
    /\ pc = "vis_mark"
    /\ IF Len(chk.flags) < chk.nelements
       THEN pc' = "cfg_done" /\ retval' = Raise("IndexError")
       ELSE pc' = "vis_write" /\ UNCHANGED retval
    /\ UNCHANGED log
    /\ CfgUnchanged

\* vis.write_vtk_file("refinement-%s-%s-%03d.vtu" % ..., overwrite=True)
VisWrite ==
    /\ pc = "vis_write"
    /\ log' = Append(log, "write_vtk_file")
    /\ pc' = "cfg_done"
    /\ retval' = Returned
    /\ CfgUnchanged

\* What refiner.refine(flags) does with a vector of n flags on a mesh of
\* nelements elements.  The refiner is an object the caller passes in: with
\* matching lengths it refines; otherwise it may raise or refine.
RefinerOutcomes(n, nelements) ==
    IF n = nelements THEN {"refined"} ELSE {"refined", "ValueError"}

\* RefinerWrangler.refine: get the flags, astype(bool), refiner.refine(flags),
\* make_refinement_connection; no test of the length of the flags.
WranglerRefine ==
    /\ pc = "refine_entry"
    /\ pc' = "cfg_done"
    /\ \E outcome \in RefinerOutcomes(Len(chk.flags), chk.nelements) :
          IF outcome = "refined"
          THEN /\ log' = log \o << "flags.get", "refiner.refine", "make_refinement_connection" >>
               /\ retval' = Returned
          ELSE /\ log' = Append(log, "flags.get")
               /\ retval' = Raise(outcome)
    /\ CfgUnchanged

NextCfg ==
    \/ VisCheckStageNr
    \/ VisReadFlags
    \/ VisMakeVisualizer
    \/ VisAssertLength
    \/ VisMarkNodes
    \/ VisWrite
    \/ WranglerRefine

SpecCfg == InitCfg /\ [][NextCfg]_vars

Effects == { log[k] : k \in DOMAIN log }

\* C22 (as stated): a stage number outside {1, 2} ends _visualize_refinement
\* with an error before the flags are read and before anything is written,
\* and a flags vector whose length differs from the element count is never
\* handed to the refiner and never written to an artifact: the call ends with
\* an error.
C22_MisconfigurationIsFatal ==
    /\ (chk.mode = "visualize" /\ chk.stage_nr \notin {1, 2} /\ pc # "vis_entry")
          => (pc = "cfg_done" /\ retval = Raise("ValueError") /\ log = <<>>)
    /\ Len(chk.flags) # chk.nelements
          => /\ "refiner.refine" \notin Effects
             /\ "write_vtk_file" \notin Effects
             /\ pc = "cfg_done" => retval # Returned

\* C22 (the part the code keeps): the stage number is tested first, and with
\* assert statements enabled _visualize_refinement ends with an error before
\* it writes an artifact for flags of the wrong length.
C22_VisualizeRejects ==
    /\ (chk.mode = "visualize" /\ chk.stage_nr \notin {1, 2} /\ pc # "vis_entry")
          => (pc = "cfg_done" /\ retval = Raise("ValueError") /\ log = <<>>)
    /\ (chk.mode = "visualize" /\ chk.debug_build /\ Len(chk.flags) # chk.nelements)
          => /\ "write_vtk_file" \notin Effects
             /\ pc = "cfg_done" => retval # Returned

\* RefinerWrangler.refine has returned normally after the refiner was run
\* with three flags on a mesh of two elements.
C22_Witness ==
    /\ chk.mode = "refine"
    /\ pc = "cfg_done"
    /\ Len(chk.flags) = 3 /\ chk.nelements = 2
    /\ "refiner.refine" \in Effects
    /\ retval = Returned

\* ------------------------------------------------- refinement and the flags
\* The step taken is a call of wrangler.refine with the flags of the
\* iteration, and it splits every flagged element.
RefineCalled ==
    /\ Len(log') = Len(log) + 1
    /\ log'[Len(log')].op = "refine"
    /\ log'[Len(log')].arg = refine_flags
    /\ log'[Len(log')].discr = CurrentDiscr.id
    /\ CurrentDiscr'.nelements = CurrentDiscr.nelements + NumFlagged(refine_flags)

\* C23: in the criterion loop of either stage, the step that follows the
\* checks of an iteration calls wrangler.refine if and only if at least one
\* entry of that iteration's flags vector is set; the refiner is never called
\* from the loop with an all-false vector, and when it is called every
\* flagged element is split.
C23_RefineIffFlagged ==
    [][ /\ pc \in {"s1_refine", "s2_refine"} => (RefineCalled <=> NumFlagged(refine_flags) >= 1)
        /\ (pc # "s2_uniform" /\ Len(log') > Len(log) /\ log'[Len(log')].op = "refine")
              => (pc \in {"s1_refine", "s2_refine"} /\ NumFlagged(log'[Len(log')].arg) >= 1) ]_vars

\* A stage-1 run whose first iteration flagged its one element and refined,
\* and whose second iteration has run all its checks, Condition 1 included,
\* without setting a flag.
C23_Witness ==
    /\ stage = 1
    /\ pc = "s1_refine"
    /\ niter = 2
    /\ NumFlagged(refine_flags) = 0
    /\ iter_violated_criteria = <<>>
    /\ \E k \in LoopRefines : log[k].niter = 1 /\ NumFlagged(log[k].arg) = 1
    /\ IterCalls(2, "check_expansion_disks_undisturbed_by_sources", "disturbed expansions") # {}

\* ------------------------------------------------ the violated-criteria history
ThresholdEntries == {"kernel length scale", "curvature", "kernel length scale and curvature"}

\* C24: every entry of the stage-1 history is non-empty and is either exactly
\* "disturbed expansions" or one of "kernel length scale", "curvature",
\* "kernel length scale and curvature", so "disturbed expansions" never shares
\* an entry with a threshold criterion; a criterion that is not configured
\* appears in no entry; every stage-2 entry is exactly
\* "insufficient quadrature resolution".
C24_HistoryEntries ==
    \A i \in DOMAIN violated_criteria :
        LET entry == violated_criteria[i]
        IN  /\ entry # ""
            /\ stage = 1 =>
                  /\ entry \in ThresholdEntries \cup {"disturbed expansions"}
                  /\ kernel_length_scale = <<>> => entry \notin {"kernel length scale", "kernel length scale and curvature"}
                  /\ scaled_max_curvature_threshold = <<>> => entry \notin {"curvature", "kernel length scale and curvature"}
            /\ stage = 2 => entry = "insufficient quadrature resolution"

\* A stage-1 history with a threshold entry followed by a Condition 1 entry,
\* in a run that has no kernel length scale configured.
C24_Witness ==
    /\ stage = 1
    /\ kernel_length_scale = <<>>
    /\ violated_criteria = << "curvature", "disturbed expansions" >>

====
